---- MODULE Spec2Model ----
(***************************************************************************)
(* Verification model of the MoodMix browser front end.                    *)
(*                                                                         *)
(*   frontend/config.js  the request client (apiFetch), the auth probe     *)
(*                       (checkAuth), logout and the loopback guard        *)
(*   frontend/webapp.js  the playlist page: bootstrap, ensureAuthenticated,*)
(*                       handleSubmit, renderPlaylist, handleLogout        *)
(*                                                                         *)
(* The page is single-threaded: every action below is one run of the       *)
(* event loop, from the event or promise resolution that starts it to the  *)
(* next await.  The document is assumed to hold every element webapp.js    *)
(* looks up (the getElementById results are all non-null).                 *)
(*                                                                         *)
(* Values are encoded with one shape per kind so that they can be          *)
(* compared: a JavaScript scalar is [t, s, n]; a decoded JSON payload is   *)
(* [t, s, n, o, links]; text typed into an input is a sequence of          *)
(* one-character strings.                                                  *)
(***************************************************************************)
EXTENDS Integers, Sequences, FiniteSets, TLC

VARIABLES
    cfg,          \* config.js module constants: API_BASE_URL, page host, supabase
    submitting,   \* webapp.js:27
    authState,    \* webapp.js:28
    dom,          \* the document: element texts, hidden classes, disabled flags
    inputs,       \* the values of moodInput, goalInput and tracksInput
    boot,         \* bootstrap(): "load", "probing" (awaiting checkAuth) or "done"
    lo,           \* handleLogout(): "idle", "sent" (awaiting logout) or "done"
    listeners,    \* the event listeners bindEvents has added
    calls,        \* the apiFetch activations whose caller has not resumed
    location,     \* window.location: the page shown or being navigated to
    fetched       \* how many times checkAuth and logout have called fetch(),
                  \* how the fetch of checkAuth ended, and the request that
                  \* checkAuth passed to fetch()

vars == <<cfg, submitting, authState, dom, inputs, boot, lo, listeners, calls, location, fetched>>

----------------------------------------------------------------------------
(* Bounds of the model.                                                    *)

\* the longest track_links array a generation response carries
MaxLinks == 2

\* how many times the login button is clicked on one load of the login page
MaxClicks == 2
----------------------------------------------------------------------------
(* JavaScript values.                                                      *)

Undef == [t |-> "undefined", s |-> "", n |-> 0]
Null == [t |-> "null", s |-> "", n |-> 0]
Str(x) == [t |-> "string", s |-> x, n |-> 0]
Num(k) == [t |-> "number", s |-> "", n |-> k]
Bool(b) == [t |-> "boolean", s |-> "", n |-> IF b THEN 1 ELSE 0]

\* ToBoolean: what `!v`, `v || w` and `if (v)` test
Truthy(v) ==
    CASE v.t = "string" -> v.s # ""
      [] v.t = "number" -> v.n # 0
      [] v.t = "boolean" -> v.n = 1
      [] v.t = "object" -> TRUE
      [] OTHER -> FALSE

\* a || b
Or(a, b) == IF Truthy(a) THEN a ELSE b

\* A decoded JSON value: a scalar, or an object with the fields o and the
\* array track_links (an absent track_links and an empty one are both <<>>:
\* `data?.track_links || []` has length 0 for either).
Scalar(v) == [t |-> v.t, s |-> v.s, n |-> v.n, o |-> <<>>, links |-> <<>>]
Obj(fields, trackLinks) == [t |-> "object", s |-> "", n |-> 0, o |-> fields, links |-> trackLinks]
NullPayload == Scalar(Null)

\* data?.key
Get(data, key) ==
    IF data.t = "object" /\ key \in DOMAIN data.o THEN data.o[key] ELSE Undef

Remove(seq, i) == [j \in 1..(Len(seq) - 1) |-> IF j < i THEN seq[j] ELSE seq[j + 1]]

----------------------------------------------------------------------------
(* frontend/config.js: configuration.                                      *)

\* API_BASE_URL with the result of `new URL(API_BASE_URL)`: valid is
\* whether the constructor returns, hostname its .hostname
ApiBase(url, valid, hostname) == [url |-> url, valid |-> valid, hostname |-> hostname]

ApiBases ==
    { ApiBase("https://api.moodmix.app", TRUE, "api.moodmix.app"),
      ApiBase("http://localhost:8000", TRUE, "localhost"),
      ApiBase("http://127.0.0.1:8000", TRUE, "127.0.0.1"),
      ApiBase("http://[::1]:8000", TRUE, "[::1]"),
      ApiBase("localhost:8000/api", TRUE, ""),
      ApiBase("api.moodmix.app", FALSE, ""),
      ApiBase("", FALSE, "") }

\* window.location.hostname
PageHosts == {"moodmix.app", "localhost", "127.0.0.1", "[::1]"}

\* FRONTEND_BASE_PATH
BasePaths == {"", "/moodmix"}

Config(base, host, broker, basePath) ==
    [apiBase |-> base, pageHost |-> host, supabase |-> broker, basePath |-> basePath]

Configs ==
    { Config(b, h, s, p) : b \in ApiBases, h \in PageHosts, s \in BOOLEAN, p \in BasePaths }

isLocalHostname(hostname) == hostname \in {"localhost", "127.0.0.1", "[::1]"}

isApiBaseLocalhost(apiBase) ==
    IF apiBase.valid THEN isLocalHostname(apiBase.hostname) ELSE FALSE

LoopbackMessage ==
    "API base URL points to localhost, which is unreachable from this hosted frontend. Set NEXT_PUBLIC_API_BASE_URL to a public HTTPS URL (for example, a tunnel URL)."


\* the guard without the frontendIsLocal test of lines 91-92
ensureApiReachableIgnoresPage(c) ==
    IF c.apiBase.url = "" THEN FALSE ELSE isApiBaseLocalhost(c.apiBase)

\* TRUE when the guard throws
ensureApiReachableFromFrontend(c) ==
    IF c.apiBase.url = "" THEN FALSE
    ELSE LET frontendIsLocal == isLocalHostname(c.pageHost)
         IN  ~frontendIsLocal /\ isApiBaseLocalhost(c.apiBase)

\* every caller in the repository passes a page name without a leading slash
frontendUrl(c, page) ==
    IF c.basePath # "" THEN c.basePath \o "/" \o page ELSE "/" \o page

\* every caller in the repository passes a path with a leading slash
apiUrl(c, path) == [base |-> c.apiBase.url, path |-> path]

----------------------------------------------------------------------------
(* frontend/config.js: the identity broker.                                *)

\* what supabase.auth.getSession() gives: it rejects, it resolves with an
\* error, or it resolves with data.session (null, or a session object whose
\* access_token is token)
BrokerSession(kindOf, token) == [kind |-> kindOf, access_token |-> token]

BrokerSessions ==
    { BrokerSession("rejects", Undef),
      BrokerSession("error", Undef),
      BrokerSession("null", Undef),
      BrokerSession("session", Undef),
      BrokerSession("session", Str("")),
      BrokerSession("session", Str("tok-1")) }

\* [threw, session]: session is the resolved value, null when Scalar(Null)
getSupabaseSession(c, bs) ==
    IF ~c.supabase THEN [threw |-> FALSE, access_token |-> Undef]
    ELSE IF bs.kind \in {"rejects", "error"} THEN [threw |-> TRUE, access_token |-> Undef]
    ELSE IF bs.kind = "null" THEN [threw |-> FALSE, access_token |-> Undef]
    ELSE [threw |-> FALSE, access_token |-> bs.access_token]

\* lines 315-321 of apiFetch: the accessToken string
AccessToken(c, bs) ==
    LET got == getSupabaseSession(c, bs)
    IN  IF got.threw THEN "" ELSE Or(got.access_token, Str("")).s

----------------------------------------------------------------------------
(* The Headers class.                                                      *)

\* header names are case-insensitive: the name a Headers object stores
HeaderName(name) ==
    CASE name \in {"Authorization", "authorization", "AUTHORIZATION"} -> "authorization"
      [] name \in {"Accept", "accept"} -> "accept"
      [] name \in {"Content-Type", "content-type"} -> "content-type"
      [] OTHER -> name

NoHeaders == [k \in {} |-> ""]

\* new Headers(init.headers || {})
NewHeaders(h) ==
    [k \in {HeaderName(x) : x \in DOMAIN h} |->
        h[CHOOSE x \in DOMAIN h : HeaderName(x) = k]]

HeadersHas(h, name) == HeaderName(name) \in DOMAIN h

HeadersSet(h, name, v) ==
    [k \in (DOMAIN h) \cup {HeaderName(name)} |->
        IF k = HeaderName(name) THEN v ELSE h[k]]

----------------------------------------------------------------------------
(* frontend/config.js: apiFetch.                                           *)

\* init.body: undefined, null, a string or a FormData object
Body(kindOf, data) == [kind |-> kindOf, data |-> data]
\* the object a caller passes to JSON.stringify for the body
JsonData(text, goal, mode, stages, tracks, public) ==
    [text |-> text, goal |-> goal, mode |-> mode, stages |-> stages,
     tracks |-> tracks, public |-> public]
NoData == JsonData(<<>>, <<>>, "", 0, Undef, FALSE)
NoBody == Body("undefined", NoData)

RequestInit(method, headers, body, credentials) ==
    [method |-> method, headers |-> headers, body |-> body, credentials |-> credentials]

\* the argument of fetch(); issued is FALSE until fetch is called
NoRequest == [issued |-> FALSE, url |-> [base |-> "", path |-> ""], method |-> "",
              headers |-> NoHeaders, body |-> NoBody, credentials |-> ""]

\* a promise's state
\* name, message and status are the properties of the error a promise
\* rejected with; status is undefined on an error that has no such property
Settled(kindOf, payload, name, message, status) ==
    [kind |-> kindOf, payload |-> payload, name |-> name, message |-> message,
     status |-> status]
Pending == Settled("pending", NullPayload, "", "", Undef)
Resolved(payload) == Settled("resolve", payload, "", "", Undef)
\* rejected with new Error(message)
Rejected(message) == Settled("reject", NullPayload, "Error", message, Undef)
\* rejected with the TypeError that fetch() or a body read rejected with
NetworkError(message) == Settled("reject", NullPayload, "TypeError", message, Undef)

\* an activation of apiFetch: who awaits it, where it is ("token": awaiting
\* the broker session; "sent": awaiting fetch; "settled": its promise has
\* settled and the caller has not resumed yet), what it has built and
\* received so far, and whether the catch of lines 319-321 has run
Call(owner, phase, path, init, headers, request, result) ==
    [owner |-> owner, phase |-> phase, path |-> path, init |-> init,
     headers |-> headers, request |-> request,
     response |-> [failed |-> FALSE, error |-> "", status |-> 0, contentType |-> Null,
                   body |-> [readable |-> FALSE, text |-> "", parses |-> FALSE,
                             value |-> NullPayload]],
     caught |-> FALSE,
     result |-> result]


\* lines 304-313 with Content-Type set whether or not there is a body
BaseHeadersAlwaysJson(init) ==
    LET headers == NewHeaders(init.headers)
        h1 == IF ~HeadersHas(headers, "Content-Type")
              THEN HeadersSet(headers, "Content-Type", "application/json")
              ELSE headers
    IN  IF ~HeadersHas(h1, "Accept")
        THEN HeadersSet(h1, "Accept", "application/json")
        ELSE h1

\* lines 304-313: the headers before the token is read
BaseHeaders(init) ==
    LET headers == NewHeaders(init.headers)
        hasBody == init.body.kind \notin {"undefined", "null"}
        isFormData == init.body.kind = "formdata"
        h1 == IF hasBody /\ ~isFormData /\ ~HeadersHas(headers, "Content-Type")
              THEN HeadersSet(headers, "Content-Type", "application/json")
              ELSE headers
    IN  IF ~HeadersHas(h1, "Accept")
        THEN HeadersSet(h1, "Accept", "application/json")
        ELSE h1

\* apiFetch up to its first await (lines 302-317): the guard throws, which
\* rejects the returned promise, or the headers are built and the broker
\* session is asked for
apiFetchBegin(c, owner, path, init) ==
    IF ensureApiReachableFromFrontend(c)
    THEN Call(owner, "settled", path, init, NoHeaders, NoRequest, Rejected(LoopbackMessage))
    ELSE Call(owner, "token", path, init, BaseHeaders(init), NoRequest, Pending)


\* lines 323-325 without the headers.has("Authorization") test
WithBearerOverwrites(headers, accessToken) ==
    IF accessToken # ""
    THEN HeadersSet(headers, "Authorization", "Bearer " \o accessToken)
    ELSE headers

\* lines 323-325
WithBearer(headers, accessToken) ==
    IF accessToken # "" /\ ~HeadersHas(headers, "Authorization")
    THEN HeadersSet(headers, "Authorization", "Bearer " \o accessToken)
    ELSE headers

\* lines 317-331 without the try/catch of lines 316-321: the error of
\* getSupabaseSession leaves apiFetch
apiFetchSendNoCatch(c, call, bs) ==
    IF getSupabaseSession(c, bs).threw
    THEN [call EXCEPT !.phase = "settled",
                      !.result = Rejected("Failed to fetch Supabase session.")]
    ELSE LET headers == WithBearer(call.headers, AccessToken(c, bs))
         IN  [call EXCEPT !.phase = "sent",
                          !.headers = headers,
                          !.request = [issued |-> TRUE,
                                       url |-> apiUrl(c, call.path),
                                       method |-> call.init.method,
                                       headers |-> headers,
                                       body |-> call.init.body,
                                       credentials |-> "include"]]

\* lines 318-331: the broker session has settled; fetch is called
apiFetchSend(c, call, bs) ==
    LET headers == WithBearer(call.headers, AccessToken(c, bs))
    IN  [call EXCEPT !.phase = "sent",
                     !.caught = getSupabaseSession(c, bs).threw,
                     !.headers = headers,
                     !.request = [issued |-> TRUE,
                                  url |-> apiUrl(c, call.path),
                                  method |-> call.init.method,
                                  headers |-> headers,
                                  body |-> call.init.body,
                                  credentials |-> "include"]]

----------------------------------------------------------------------------
(* Responses.                                                              *)

\* A response body: whether it can be read to its end, its text, and what
\* JSON.parse makes of the text (parses is FALSE when it throws).
ResponseBody(readable, text, parses, value) ==
    [readable |-> readable, text |-> text, parses |-> parses, value |-> value]

TextBody(text) == ResponseBody(TRUE, text, FALSE, NullPayload)
JsonBody(text, value) == ResponseBody(TRUE, text, TRUE, value)
BrokenBody == ResponseBody(FALSE, "", FALSE, NullPayload)

\* fetch() rejected (failed = TRUE, with the error's message), or resolved
\* with a response
Response(failed, errorMessage, status, contentType, body) ==
    [failed |-> failed, error |-> errorMessage, status |-> status,
     contentType |-> contentType, body |-> body]

TransportFailure(message) == Response(TRUE, message, 0, Null, BrokenBody)
HttpResponse(status, contentType, body) == Response(FALSE, "", status, contentType, body)

\* response.ok
ResponseOk(response) == response.status >= 200 /\ response.status <= 299

\* the message of the error a failed body read rejects with
BodyReadError == "Failed to fetch"

\* contentType.includes("application/json"), over the content types modelled
IncludesApplicationJson(contentType) ==
    contentType \in {"application/json", "application/json; charset=utf-8",
                     "application/problem+json, application/json"}

GenericMessage(statusCode) == "Request failed (" \o ToString(statusCode) \o ")."


\* parseErrorMessage with payload.message tried before payload.detail
parseErrorMessageMessageFirst(payload, statusCode) ==
    IF ~Truthy(payload) THEN GenericMessage(statusCode)
    ELSE IF payload.t = "string" THEN payload.s
    ELSE IF payload.t = "object"
         THEN Or(Or(Get(payload, "message"), Get(payload, "detail")),
                 Str(GenericMessage(statusCode))).s
    ELSE GenericMessage(statusCode)

parseErrorMessage(payload, statusCode) ==
    IF ~Truthy(payload) THEN GenericMessage(statusCode)
    ELSE IF payload.t = "string" THEN payload.s
    ELSE IF payload.t = "object"
         THEN Or(Or(Get(payload, "detail"), Get(payload, "message")),
                 Str(GenericMessage(statusCode))).s
    ELSE GenericMessage(statusCode)

\* lines 333-345 without the try/catch of lines 337-341: a failing
\* response.json() leaves apiFetch
ReadPayloadNoCatch(response) ==
    LET contentType == Or(response.contentType, Str("")).s
        body == response.body
    IN  IF IncludesApplicationJson(contentType)
        THEN IF body.readable /\ body.parses
             THEN [threw |-> FALSE, payload |-> body.value]
             ELSE [threw |-> TRUE, payload |-> NullPayload]
        ELSE IF ~body.readable
             THEN [threw |-> TRUE, payload |-> NullPayload]
             ELSE [threw |-> FALSE,
                   payload |-> IF body.text # ""
                               THEN Obj([message |-> Str(body.text)], <<>>)
                               ELSE NullPayload]

\* lines 333-345: [threw, payload]; threw is response.text() rejecting
ReadPayload(response) ==
    LET contentType == Or(response.contentType, Str("")).s
        body == response.body
    IN  IF IncludesApplicationJson(contentType)
        THEN [threw |-> FALSE,
              payload |-> IF body.readable /\ body.parses THEN body.value ELSE NullPayload]
        ELSE IF ~body.readable
             THEN [threw |-> TRUE, payload |-> NullPayload]
             ELSE [threw |-> FALSE,
                   payload |-> IF body.text # ""
                               THEN Obj([message |-> Str(body.text)], <<>>)
                               ELSE NullPayload]


\* apiFetch throwing, at line 348, an error that carries response.status
apiFetchSettleWithStatus(response) ==
    IF response.failed THEN NetworkError(response.error)
    ELSE LET got == ReadPayload(response)
         IN  IF got.threw THEN NetworkError(BodyReadError)
             ELSE IF ~ResponseOk(response)
                  THEN Settled("reject", NullPayload, "Error",
                               parseErrorMessage(got.payload, response.status),
                               Num(response.status))
                  ELSE Resolved(got.payload)

\* lines 327-351: what the promise returned by apiFetch settles with once
\* fetch has settled with response
apiFetchSettle(response) ==
    IF response.failed THEN NetworkError(response.error)
    ELSE LET got == ReadPayload(response)
         IN  IF got.threw THEN NetworkError(BodyReadError)
             ELSE IF ~ResponseOk(response)
                  THEN Rejected(parseErrorMessage(got.payload, response.status))
                  ELSE Resolved(got.payload)

----------------------------------------------------------------------------
(* Strings the page computes on, as sequences of characters.               *)

Whitespace == {" ", "\t", "\n"}

RECURSIVE TrimStart(_)
TrimStart(str) ==
    IF str # <<>> /\ Head(str) \in Whitespace THEN TrimStart(Tail(str)) ELSE str

RECURSIVE TrimEnd(_)
TrimEnd(str) ==
    IF str # <<>> /\ str[Len(str)] \in Whitespace
    THEN TrimEnd(SubSeq(str, 1, Len(str) - 1))
    ELSE str


\* trim() that leaves trailing whitespace in place
TrimLeading(str) == TrimStart(str)

\* String.prototype.trim
Trim(str) == TrimEnd(TrimStart(str))

UpperCase == <<"A", "B", "C", "D", "E", "F", "G", "H", "I", "J", "K", "L", "M", "N", "O", "P", "Q", "R", "S", "T", "U", "V", "W", "X", "Y", "Z">>
LowerCase == <<"a", "b", "c", "d", "e", "f", "g", "h", "i", "j", "k", "l", "m", "n", "o", "p", "q", "r", "s", "t", "u", "v", "w", "x", "y", "z">>

\* String.prototype.toLowerCase
ToLowerCase(str) ==
    [i \in 1..Len(str) |->
        IF \E k \in 1..Len(UpperCase) : UpperCase[k] = str[i]
        THEN LowerCase[CHOOSE k \in 1..Len(UpperCase) : UpperCase[k] = str[i]]
        ELSE str[i]]

\* whether word occurs in str
Occurs(word, str) ==
    \E i \in 1..(Len(str) - Len(word) + 1) : SubSeq(str, i, i + Len(word) - 1) = word

\* /(a|b|c)/.test(str)
TestAny(wordSet, str) == \E w \in wordSet : Occurs(w, str)

DigitChars == <<"0", "1", "2", "3", "4", "5", "6", "7", "8", "9">>
IsDigit(ch) == \E k \in 1..10 : DigitChars[k] = ch
DigitValue(ch) == (CHOOSE k \in 1..10 : DigitChars[k] = ch) - 1

RECURSIVE ParseDigits(_, _)
ParseDigits(str, acc) ==
    IF str = <<>> \/ ~IsDigit(Head(str)) THEN acc
    ELSE ParseDigits(Tail(str), 10 * acc + DigitValue(Head(str)))

NaN == [t |-> "number", s |-> "NaN", n |-> 0]

\* parseInt(str, 10)
parseInt(str) ==
    LET t0 == TrimStart(str)
        negative == t0 # <<>> /\ Head(t0) = "-"
        t1 == IF t0 # <<>> /\ Head(t0) \in {"-", "+"} THEN Tail(t0) ELSE t0
    IN  IF t1 = <<>> \/ ~IsDigit(Head(t1)) THEN NaN
        ELSE Num(IF negative THEN 0 - ParseDigits(t1, 0) ELSE ParseDigits(t1, 0))

----------------------------------------------------------------------------
(* frontend/webapp.js: detectMode.                                         *)

SleepWords ==
    { <<"s", "l", "e", "e", "p">>,
      <<"i", "n", "s", "o", "m", "n", "i", "a">>,
      <<"e", "x", "h", "a", "u", "s", "t", "e", "d">>,
      <<"t", "i", "r", "e", "d">>,
      <<"b", "e", "d">>,
      <<"n", "i", "g", "h", "t">> }

FocusWords ==
    { <<"f", "o", "c", "u", "s">>,
      <<"s", "t", "u", "d", "y">>,
      <<"d", "e", "e", "p", " ", "w", "o", "r", "k">>,
      <<"c", "o", "n", "c", "e", "n", "t", "r", "a", "t", "e">>,
      <<"p", "r", "o", "d", "u", "c", "t", "i", "v", "e">> }

GymWords ==
    { <<"w", "o", "r", "k", "o", "u", "t">>,
      <<"g", "y", "m">>,
      <<"l", "i", "f", "t">>,
      <<"r", "u", "n">>,
      <<"t", "r", "a", "i", "n", "i", "n", "g">> }

CalmWords ==
    { <<"a", "n", "x", "i", "o", "u", "s">>,
      <<"a", "n", "x", "i", "e", "t", "y">>,
      <<"s", "t", "r", "e", "s", "s", "e", "d">>,
      <<"s", "t", "r", "e", "s", "s">>,
      <<"c", "a", "l", "m">>,
      <<"p", "a", "n", "i", "c">> }

RageWords ==
    { <<"a", "n", "g", "r", "y">>,
      <<"r", "a", "g", "e">>,
      <<"f", "u", "r", "i", "o", "u", "s">>,
      <<"m", "a", "d">>,
      <<"f", "r", "u", "s", "t", "r", "a", "t", "e", "d">> }


\* detectMode with the focus pattern of line 61 tried before the sleep
\* pattern of line 58
detectModeFocusFirst(text) ==
    LET moodText == ToLowerCase(text)
    IN  IF TestAny(FocusWords, moodText) THEN "focus"
        ELSE IF TestAny(SleepWords, moodText) THEN "sleep"
        ELSE IF TestAny(GymWords, moodText) THEN "gym"
        ELSE IF TestAny(CalmWords, moodText) THEN "calm"
        ELSE IF TestAny(RageWords, moodText) THEN "rage_release"
        ELSE "uplift"

detectMode(text) ==
    LET moodText == ToLowerCase(text)
    IN  IF TestAny(SleepWords, moodText) THEN "sleep"
        ELSE IF TestAny(FocusWords, moodText) THEN "focus"
        ELSE IF TestAny(GymWords, moodText) THEN "gym"
        ELSE IF TestAny(CalmWords, moodText) THEN "calm"
        ELSE IF TestAny(RageWords, moodText) THEN "rage_release"
        ELSE "uplift"

----------------------------------------------------------------------------
(* What the user can type.                                                 *)

MoodTexts ==
    { <<>>,
      <<" ", " ">>,
      <<" ", "T", "i", "r", "e", "d", " ">> }

GoalTexts ==
    { <<>>,
      <<" ", "\t">>,
      <<"c", "a", "l", "m", " ">> }

TracksTexts ==
    { <<"3", "0">>,
      <<"1", "2">> }

----------------------------------------------------------------------------
(* frontend/webapp.js: the page state the handlers read and write.         *)

GeneratePath == "/generate-mood-arc-playlist"
AuthMePath == "/auth/me"
LogoutPath == "/auth/logout"

\* webapp.js:28
InitAuthState == [authenticated |-> FALSE, displayName |-> Null, userId |-> Null]

\* The document as webapp.js finds it: every *Hidden field is whether the
\* element carries the class "hidden"; trackList is the children of
\* #track-list; charCount and goalCharCount are the n of "n/280".
InitDom ==
    [flowErrorText |-> "", flowErrorHidden |-> TRUE,
     createDisabled |-> FALSE, createText |-> "Create playlist",
     titleText |-> "", linkHref |-> "", linkHidden |-> TRUE,
     boxHidden |-> TRUE, heroHidden |-> FALSE, formHidden |-> FALSE,
     lastPromptHidden |-> TRUE, newBtnHidden |-> TRUE,
     noteText |-> "", noteHidden |-> TRUE,
     trackList |-> <<>>, trackListHidden |-> TRUE,
     connectedText |-> "", logoutHidden |-> TRUE, logoutDisabled |-> FALSE,
     charCount |-> 0, goalCharCount |-> 0, tracksValue |-> <<>>]

\* the module state of webapp.js and the window's location, as one value
PageState(sub, auth, d, loc) ==
    [submitting |-> sub, authState |-> auth, dom |-> d, location |-> loc]

redirectToLogin(c, pg) == [pg EXCEPT !.location = frontendUrl(c, "login.html")]

\* el is the *Hidden field of the element
setHidden(pg, el, hidden) == [pg EXCEPT !.dom[el] = hidden]

\* setError(flowError, message)
setError(pg, message) ==
    IF message = ""
    THEN [pg EXCEPT !.dom.flowErrorText = "", !.dom.flowErrorHidden = TRUE]
    ELSE [pg EXCEPT !.dom.flowErrorText = message, !.dom.flowErrorHidden = FALSE]

\* setSubmitting that disables the button and never enables it again
setSubmittingOnlyDisables(pg, next) ==
    [pg EXCEPT !.submitting = next,
               !.dom.createDisabled = IF next THEN TRUE ELSE @,
               !.dom.createText = IF next THEN "Creating playlist..." ELSE "Create playlist"]

setSubmitting(pg, next) ==
    [pg EXCEPT !.submitting = next,
               !.dom.createDisabled = next,
               !.dom.createText = IF next THEN "Creating playlist..." ELSE "Create playlist"]

----------------------------------------------------------------------------
(* frontend/webapp.js: renderPlaylist.                                     *)

\* the string an element shows for a value assigned to textContent or href
TextOf(v) ==
    CASE v.t = "string" -> v.s
      [] v.t = "number" -> (IF v.s = "NaN" THEN "NaN" ELSE ToString(v.n))
      [] v.t = "boolean" -> (IF v.n = 1 THEN "true" ELSE "false")
      [] OTHER -> v.t

\* a child of #track-list
Element(tag, text, href) == [tag |-> tag, text |-> text, href |-> href]

\* lines 128-138: the anchor of trackLinks[i - 1] (the source's em dash is
\* written --)
TrackAnchor(track, i) ==
    Element("a",
            IF Truthy(track.name) /\ Truthy(track.artist)
            THEN TextOf(track.name) \o " -- " \o TextOf(track.artist)
            ELSE "Track " \o ToString(i),
            TextOf(track.url))

\* lines 122-140
TrackListChildren(trackLinks) ==
    <<Element("p", ToString(Len(trackLinks)) \o " tracks found -- click to open in Spotify:", "")>>
    \o [i \in 1..Len(trackLinks) |-> TrackAnchor(trackLinks[i], i)]


\* line 121 without the tracksAdded === 0 test
ShowsTrackLinksAnyCount(trackLinks, tracksAdded) == Len(trackLinks) > 0

\* line 121
ShowsTrackLinks(trackLinks, tracksAdded) ==
    Len(trackLinks) > 0 /\ tracksAdded.t = "number" /\ tracksAdded.s = "" /\ tracksAdded.n = 0


\* renderPlaylist with the fixed string of line 107 shown whatever the
\* response's spotify_note
renderPlaylistFixedNote(pg, data) ==
    LET playlistName == Or(Or(Get(data, "playlist_name"), Get(data, "playlistName")), Str("Playlist"))
        playlistUrl == Or(Or(Get(data, "playlist_url"), Get(data, "playlistUrl")), Str(""))
        p0 == [pg EXCEPT !.dom.titleText = TextOf(playlistName)]
    IN  IF ~Truthy(playlistUrl)
        THEN setError(p0, "Playlist could not be created. Please try again.")
        ELSE [p0 EXCEPT !.dom.linkHref = TextOf(playlistUrl),
                        !.dom.linkHidden = FALSE,
                        !.dom.boxHidden = FALSE,
                        !.dom.heroHidden = TRUE,
                        !.dom.formHidden = TRUE,
                        !.dom.lastPromptHidden = TRUE,
                        !.dom.newBtnHidden = FALSE]

renderPlaylist(pg, data) ==
    LET playlistName == Or(Or(Get(data, "playlist_name"), Get(data, "playlistName")), Str("Playlist"))
        playlistUrl == Or(Or(Get(data, "playlist_url"), Get(data, "playlistUrl")), Str(""))
        trackLinks == IF data.t = "object" THEN data.links ELSE <<>>
        spotifyNote == Or(Get(data, "spotify_note"), Str(""))
        tracksAdded == Or(Get(data, "tracks_added"), Num(0))
        p0 == [pg EXCEPT !.dom.titleText = TextOf(playlistName)]
    IN  IF ~Truthy(playlistUrl)
        THEN setError(p0, TextOf(Or(spotifyNote, Str("Playlist could not be created. Please try again."))))
        ELSE LET p1 == [p0 EXCEPT !.dom.linkHref = TextOf(playlistUrl),
                                  !.dom.linkHidden = FALSE,
                                  !.dom.boxHidden = FALSE,
                                  !.dom.heroHidden = TRUE,
                                  !.dom.formHidden = TRUE,
                                  !.dom.lastPromptHidden = TRUE,
                                  !.dom.newBtnHidden = FALSE]
                 p2 == IF Truthy(spotifyNote)
                       THEN [p1 EXCEPT !.dom.noteText = TextOf(spotifyNote),
                                       !.dom.noteHidden = FALSE]
                       ELSE p1
             IN  IF ShowsTrackLinks(trackLinks, tracksAdded)
                 THEN [p2 EXCEPT !.dom.trackList = TrackListChildren(trackLinks),
                                 !.dom.trackListHidden = FALSE]
                 ELSE p2

----------------------------------------------------------------------------
(* frontend/config.js: checkAuth and logout; webapp.js: ensureAuthenticated *)

\* lines 217-219: the argument of the fetch() that checkAuth calls
checkAuthFetch(c) ==
    [issued |-> TRUE, url |-> apiUrl(c, AuthMePath), method |-> "GET",
     headers |-> NoHeaders, body |-> NoBody, credentials |-> "include"]

\* checkAuth without the catch of lines 226-228
checkAuthNoCatch(response) ==
    IF response.failed THEN NetworkError(response.error)
    ELSE IF ~ResponseOk(response) THEN Resolved(NullPayload)
    ELSE IF response.body.readable /\ response.body.parses
         THEN Resolved(response.body.value)
         ELSE Rejected("Unexpected token < in JSON at position 0")

\* what the promise of checkAuth() settles with once fetch has settled
checkAuth(response) ==
    IF response.failed THEN Resolved(NullPayload)
    ELSE IF ~ResponseOk(response) THEN Resolved(NullPayload)
    ELSE IF response.body.readable /\ response.body.parses
         THEN Resolved(response.body.value)
         ELSE Resolved(NullPayload)

\* where checkAuth leaves its try block: fetch() rejected, line 221
\* returned, response.json() rejected, or response.json() resolved
ProbeOutcome(response) ==
    IF response.failed THEN "rejected"
    ELSE IF ~ResponseOk(response) THEN "status"
    ELSE IF response.body.readable /\ response.body.parses THEN "decoded"
    ELSE "undecodable"


\* logout without the catch of lines 237-239
logoutNoCatch(response) ==
    IF response.failed THEN NetworkError(response.error) ELSE Resolved(Scalar(Undef))

\* what the promise of logout() settles with once fetch has settled
logout(response) == Resolved(Scalar(Undef))


\* ensureAuthenticated without the user_id test of line 151
ensureAuthenticatedNoUserId(c, pg, settled) ==
    IF settled.kind = "reject"
    THEN [page |-> redirectToLogin(c, setError(pg, "Failed to load Spotify authentication status.")),
          returns |-> FALSE]
    ELSE LET backendAuth == settled.payload
             spotifyUserId == Or(Get(backendAuth, "user_id"), Null)
         IN  IF ~Truthy(Get(backendAuth, "authenticated"))
             THEN [page |-> redirectToLogin(c, pg), returns |-> FALSE]
             ELSE [page |-> [pg EXCEPT
                              !.authState = [authenticated |-> TRUE,
                                             displayName |-> Or(Get(backendAuth, "display_name"), spotifyUserId),
                                             userId |-> spotifyUserId],
                              !.dom.logoutHidden = FALSE],
                   returns |-> TRUE]

\* ensureAuthenticated from the settling of checkAuth() on (lines 148-174):
\* the page state it leaves and the value it returns
ensureAuthenticated(c, pg, settled) ==
    IF settled.kind = "reject"
    THEN [page |-> redirectToLogin(c, setError(pg,
                      IF settled.message # "" THEN settled.message
                      ELSE "Failed to load Spotify authentication status.")),
          returns |-> FALSE]
    ELSE LET backendAuth == settled.payload
             spotifyUserId == Or(Get(backendAuth, "user_id"), Null)
         IN  IF ~Truthy(Get(backendAuth, "authenticated")) \/ ~Truthy(spotifyUserId)
             THEN [page |-> redirectToLogin(c, pg), returns |-> FALSE]
             ELSE [page |-> [pg EXCEPT
                              !.authState = [authenticated |-> TRUE,
                                             displayName |-> Or(Get(backendAuth, "display_name"), spotifyUserId),
                                             userId |-> spotifyUserId],
                              !.dom.connectedText = "Connected as " \o
                                  TextOf(Or(Get(backendAuth, "display_name"), spotifyUserId)),
                              !.dom.logoutHidden = FALSE],
                   returns |-> TRUE]

----------------------------------------------------------------------------
(* frontend/webapp.js: handleSubmit, handleLogout, bindEvents, bootstrap.  *)

NoCall == Call("none", "idle", "", RequestInit("", NoHeaders, NoBody, ""), NoHeaders, NoRequest, Pending)

\* handleSubmit without the `submitting` test of line 179
SubmitLockedNever(pg) == FALSE

\* line 179 (moodInput and goalInput exist)
SubmitLocked(pg) == pg.submitting

\* the field checks without the goal-mood check of lines 192-195
ValidationMessageMoodOnly(text, goalText) ==
    IF text = <<>> THEN "Tell me how you are feeling right now." ELSE ""

\* lines 187-195: the message of the field check that fails, "" when none does
ValidationMessage(text, goalText) ==
    IF text = <<>> THEN "Tell me how you are feeling right now."
    ELSE IF goalText = <<>> THEN "Tell me how you want to feel."
    ELSE ""

\* handleSubmit without the Session test of line 197
SessionMissingNever(pg) == FALSE

\* line 197
SessionMissing(pg) == ~pg.authState.authenticated

\* lines 207-220: the object given to JSON.stringify
GenerationBody(text, goalText, tracksText) ==
    JsonData(text, goalText, detectMode(text \o <<" ">> \o goalText), 5,
             parseInt(tracksText), FALSE)

\* handleSubmit from the submit event to its return or its await (lines
\* 177-221): the page state it leaves, and the apiFetch activation it
\* awaits when started
handleSubmit(c, pg, inp) ==
    IF SubmitLocked(pg) THEN [page |-> pg, started |-> FALSE, call |-> NoCall]
    ELSE LET p0 == setError(pg, "")
             text == Trim(inp.mood)
             goalText == Trim(inp.goal)
         IN  IF ValidationMessage(text, goalText) # ""
             THEN [page |-> setError(p0, ValidationMessage(text, goalText)),
                   started |-> FALSE, call |-> NoCall]
             ELSE IF SessionMissing(p0)
             THEN [page |-> redirectToLogin(c, setError(p0, "Spotify session not available.")),
                   started |-> FALSE, call |-> NoCall]
             ELSE [page |-> setHidden(setSubmitting(p0, TRUE), "boxHidden", TRUE),
                   started |-> TRUE,
                   call |-> apiFetchBegin(c, "handleSubmit", GeneratePath,
                               RequestInit("POST", NoHeaders,
                                   Body("string", GenerationBody(text, goalText, inp.tracks)),
                                   ""))]

\* handleSubmit with setSubmitting(false) at the end of the try block
\* instead of in a finally block
handleSubmitResumeNoFinally(pg, settled) ==
    IF settled.kind = "resolve"
    THEN setSubmitting(renderPlaylist(pg, settled.payload), FALSE)
    ELSE setError(pg, IF settled.message # "" THEN settled.message
                      ELSE "Failed to create playlist.")


\* handleSubmit whose catch block shows the fixed string of line 225
\* whatever the error's message
handleSubmitResumeFixedMessage(pg, settled) ==
    LET p1 == IF settled.kind = "resolve"
              THEN renderPlaylist(pg, settled.payload)
              ELSE setError(pg, "Failed to create playlist.")
    IN  setSubmitting(p1, FALSE)

\* handleSubmit from the settling of apiFetch on (lines 211-228)
handleSubmitResume(pg, settled) ==
    LET p1 == IF settled.kind = "resolve"
              THEN renderPlaylist(pg, settled.payload)
              ELSE setError(pg, IF settled.message # "" THEN settled.message
                                ELSE "Failed to create playlist.")
    IN  setSubmitting(p1, FALSE)

\* handleLogout that also resets the Session at the click
handleLogoutResetsSession(pg) ==
    [pg EXCEPT !.dom.logoutDisabled = TRUE, !.authState = InitAuthState]

\* handleLogout up to its await (lines 232-237)
handleLogout(pg) == [pg EXCEPT !.dom.logoutDisabled = TRUE]

\* handleLogout from the settling of logout() on (lines 237-242)
handleLogoutResume(c, pg, settled) ==
    redirectToLogin(c,
        IF settled.kind = "reject"
        THEN setError(pg, IF settled.message # "" THEN settled.message ELSE "Could not sign out.")
        ELSE pg)

\* the listeners bindEvents adds
bindEvents ==
    {"moodInput.input", "goalInput.input", "tracksInput.input",
     "moodForm.submit", "logoutBtn.click"}

\* bootstrap without the early return of lines 275-277
bootstrapAlwaysBinds(c, pg, settled) ==
    [page |-> ensureAuthenticated(c, pg, settled).page, listeners |-> bindEvents]

\* bootstrap from the settling of checkAuth() on (lines 273-280)
bootstrap(c, pg, settled) ==
    LET ensured == ensureAuthenticated(c, pg, settled)
    IN  [page |-> ensured.page,
         listeners |-> IF ensured.returns THEN bindEvents ELSE {}]

----------------------------------------------------------------------------
(* What the network can answer.                                            *)

NoFields == [k \in {} |-> Undef]

JsonType == Str("application/json")

\* GET /auth/me
AuthBodies ==
    { Obj(a @@ u @@ d, <<>>) :
        a \in {NoFields, "authenticated" :> Bool(TRUE), "authenticated" :> Bool(FALSE)},
        u \in {NoFields, "user_id" :> Null, "user_id" :> Str(""), "user_id" :> Str("spotify-user-1")},
        d \in {NoFields, "display_name" :> Null, "display_name" :> Str(""), "display_name" :> Str("Ann")} }

ErrorBody == JsonBody("{\"detail\":\"Not authenticated\"}", Obj("detail" :> Str("Not authenticated"), <<>>))

AuthResponses ==
    { HttpResponse(200, JsonType, JsonBody("{...}", b)) : b \in AuthBodies }
    \cup { HttpResponse(200, JsonType, JsonBody("null", NullPayload)),
           HttpResponse(200, JsonType, BrokenBody),
           HttpResponse(200, Str("text/html"), TextBody("<html></html>")),
           HttpResponse(401, JsonType, ErrorBody),
           HttpResponse(403, JsonType, ErrorBody),
           HttpResponse(500, Str("text/plain"), TextBody("Internal Server Error")),
           TransportFailure("Failed to fetch") }

\* POST /auth/logout
LogoutResponses ==
    { HttpResponse(200, JsonType, JsonBody("{\"ok\":true}", Obj(NoFields, <<>>))),
      HttpResponse(500, Str("text/plain"), TextBody("Internal Server Error")),
      TransportFailure("Failed to fetch") }

\* POST /generate-mood-arc-playlist
Track(name, artist, url) == [name |-> name, artist |-> artist, url |-> url]

TrackAt(i) ==
    IF i % 2 = 1
    THEN Track(Str("Song " \o ToString(i)), Str("Artist " \o ToString(i)),
               Str("https://open.spotify.com/track/" \o ToString(i)))
    ELSE Track(Str("Song " \o ToString(i)), Undef,
               Str("https://open.spotify.com/track/" \o ToString(i)))

TrackLinks(n) == [i \in 1..n |-> TrackAt(i)]

PlaylistUrl == Str("https://open.spotify.com/playlist/1")

GenerationBodies ==
    { Obj(u @@ s @@ a, TrackLinks(n)) :
        u \in {NoFields,
               ("playlist_url" :> PlaylistUrl) @@ ("playlist_name" :> Str("Tired to calm")),
               "playlistUrl" :> PlaylistUrl},
        s \in {NoFields, "spotify_note" :> Str(""),
               "spotify_note" :> Str("Tracks could not be added.")},
        a \in {NoFields, "tracks_added" :> Num(0), "tracks_added" :> Num(2)},
        n \in 0..MaxLinks }

GenerationResponses ==
    { HttpResponse(200, JsonType, JsonBody("{...}", b)) : b \in GenerationBodies }
    \cup { HttpResponse(200, JsonType, JsonBody("null", NullPayload)),
           HttpResponse(200, Str("text/plain"), TextBody("OK")),
           HttpResponse(401, JsonType, ErrorBody),
           HttpResponse(502, Str("text/html"), TextBody("")),
           TransportFailure("Failed to fetch"),
           TransportFailure("") }

\* any other route: the statuses, content types and bodies apiFetch tells apart
EmotionsPath == "/emotions"

DetailAndMessage ==
    JsonBody("{\"detail\":\"Mood text is required\",\"message\":\"Bad request\"}",
             Obj(("detail" :> Str("Mood text is required")) @@ ("message" :> Str("Bad request")), <<>>))
EmptyDetail ==
    JsonBody("{\"detail\":\"\",\"message\":\"Bad request\"}",
             Obj(("detail" :> Str("")) @@ ("message" :> Str("Bad request")), <<>>))
MessageOnly ==
    JsonBody("{\"message\":\"Bad request\"}", Obj("message" :> Str("Bad request"), <<>>))
EmptyObject == JsonBody("{}", Obj(NoFields, <<>>))
JsonString == JsonBody("\"Upstream timed out\"", Scalar(Str("Upstream timed out")))
JsonNull == JsonBody("null", NullPayload)

TypedBodies ==
    { <<JsonType, DetailAndMessage>>,
      <<JsonType, EmptyDetail>>,
      <<Str("application/json; charset=utf-8"), MessageOnly>>,
      <<JsonType, EmptyObject>>,
      <<JsonType, JsonString>>,
      <<JsonType, JsonNull>>,
      <<JsonType, TextBody("<html>Bad Gateway</html>")>>,
      <<JsonType, TextBody("")>>,
      <<JsonType, BrokenBody>>,
      <<Str("text/plain"), TextBody("Service unavailable")>>,
      <<Str("text/plain"), TextBody("")>>,
      <<Str("text/plain"), MessageOnly>>,
      <<Str("text/plain"), BrokenBody>>,
      <<Null, TextBody("Service unavailable")>>,
      <<Null, TextBody("")>> }

Statuses == {200, 404, 500}

AnyResponses ==
    { HttpResponse(st, tb[1], tb[2]) : st \in Statuses, tb \in TypedBodies }
    \cup { TransportFailure("Failed to fetch"), TransportFailure("") }

ResponsesFor(path) ==
    CASE path = GeneratePath -> GenerationResponses
      [] path = AuthMePath -> AuthResponses
      [] path = LogoutPath -> LogoutResponses
      [] OTHER -> AnyResponses

----------------------------------------------------------------------------
(* The playlist page.                                                      *)

Page == PageState(submitting, authState, dom, location)

SetPage(pg) ==
    /\ submitting' = pg.submitting
    /\ authState' = pg.authState
    /\ dom' = pg.dom
    /\ location' = pg.location

\* the configurations the page is checked under
PageConfigs ==
    { Config(ApiBase("https://api.moodmix.app", TRUE, "api.moodmix.app"), "moodmix.app", FALSE, ""),
      Config(ApiBase("https://api.moodmix.app", TRUE, "api.moodmix.app"), "moodmix.app", TRUE, "/moodmix"),
      Config(ApiBase("http://localhost:8000", TRUE, "localhost"), "moodmix.app", FALSE, ""),
      Config(ApiBase("http://localhost:8000", TRUE, "localhost"), "localhost", FALSE, "") }

Init ==
    /\ cfg \in PageConfigs
    /\ submitting = FALSE
    /\ authState = InitAuthState
    /\ dom = InitDom
    /\ inputs = [mood |-> <<>>, goal |-> <<>>, tracks |-> <<"3", "0">>]
    /\ boot = "load"
    /\ lo = "idle"
    /\ listeners = {}
    /\ calls = <<>>
    /\ location = frontendUrl(cfg, "webapp.html")
    /\ fetched = [me |-> 0, logout |-> 0, probe |-> "none", request |-> NoRequest]

\* line 282: the module runs bootstrap(), which runs ensureAuthenticated()
\* up to `await checkAuth()`, which has called fetch()
Bootstrap ==
    /\ boot = "load"
    /\ SetPage(setError(Page, ""))
    /\ boot' = "probing"
    /\ fetched' = [fetched EXCEPT !.me = @ + 1, !.request = checkAuthFetch(cfg)]
    /\ UNCHANGED <<cfg, inputs, lo, listeners, calls>>

\* The fetch of /auth/me settles with r; checkAuth() returns, and
\* ensureAuthenticated and bootstrap run to their end.  (Nothing the page
\* does between the settling of a fetch and the resumption of its awaiter
\* reads the response, so the two are one step here, as for the other
\* requests below.)
AuthSettleWith(r) ==
    /\ boot = "probing"
    /\ LET b == bootstrap(cfg, Page, checkAuth(r))
       IN  /\ SetPage(b.page)
           /\ listeners' = listeners \cup b.listeners
    /\ boot' = "done"
    /\ fetched' = [fetched EXCEPT !.probe = ProbeOutcome(r)]
    /\ UNCHANGED <<cfg, inputs, lo, calls>>

AuthSettle == \E r \in ResponsesFor(AuthMePath) : AuthSettleWith(r)

\* the user edits the current-mood field (the fields are edited once the
\* auth check has settled)
TypeMood ==
    /\ boot = "done"
    /\ \E v \in MoodTexts \ {inputs.mood} : inputs' = [inputs EXCEPT !.mood = v]
    /\ dom' = IF "moodInput.input" \in listeners
              THEN [dom EXCEPT !.charCount = Len(inputs'.mood)]
              ELSE dom
    /\ UNCHANGED <<cfg, submitting, authState, boot, lo, listeners, calls, location, fetched>>

\* the user edits the goal-mood field
TypeGoal ==
    /\ boot = "done"
    /\ \E v \in GoalTexts \ {inputs.goal} : inputs' = [inputs EXCEPT !.goal = v]
    /\ dom' = IF "goalInput.input" \in listeners
              THEN [dom EXCEPT !.goalCharCount = Len(inputs'.goal)]
              ELSE dom
    /\ UNCHANGED <<cfg, submitting, authState, boot, lo, listeners, calls, location, fetched>>

\* the user moves the track-count slider
SlideTracks ==
    /\ boot = "done"
    /\ \E v \in TracksTexts \ {inputs.tracks} : inputs' = [inputs EXCEPT !.tracks = v]
    /\ dom' = IF "tracksInput.input" \in listeners
              THEN [dom EXCEPT !.tracksValue = inputs'.tracks]
              ELSE dom
    /\ UNCHANGED <<cfg, submitting, authState, boot, lo, listeners, calls, location, fetched>>

\* a submit event on the form
Submit ==
    /\ "moodForm.submit" \in listeners
    /\ LET r == handleSubmit(cfg, Page, inputs)
       IN  /\ SetPage(r.page)
           /\ calls' = IF r.started THEN Append(calls, r.call) ELSE calls
    /\ UNCHANGED <<cfg, inputs, boot, lo, listeners, fetched>>

\* the broker session of the apiFetch activation i settles with bs:
\* fetch() is called
ApiFetchTokenWith(i, bs) ==
    /\ calls[i].phase = "token"
    /\ calls' = [calls EXCEPT ![i] = apiFetchSend(cfg, calls[i], bs)]
    /\ UNCHANGED <<cfg, submitting, authState, dom, inputs, boot, lo, listeners, location, fetched>>

ApiFetchToken ==
    \E i \in DOMAIN calls :
        \E bs \in (IF cfg.supabase THEN BrokerSessions ELSE {BrokerSession("null", Undef)}) :
            ApiFetchTokenWith(i, bs)

\* the fetch of the activation i that handleSubmit awaits settles with r;
\* apiFetch returns or throws, and handleSubmit runs to its end
SubmitSettleWith(i, r) ==
    /\ calls[i].owner = "handleSubmit"
    /\ calls[i].phase = "sent"
    /\ SetPage(handleSubmitResume(Page, apiFetchSettle(r)))
    /\ calls' = Remove(calls, i)
    /\ UNCHANGED <<cfg, inputs, boot, lo, listeners, fetched>>

SubmitSettle ==
    \E i \in DOMAIN calls : \E r \in ResponsesFor(calls[i].path) : SubmitSettleWith(i, r)

\* handleSubmit resumes on an apiFetch promise that the guard rejected
SubmitRejected ==
    \E i \in DOMAIN calls :
        /\ calls[i].owner = "handleSubmit"
        /\ calls[i].phase = "settled"
        /\ SetPage(handleSubmitResume(Page, calls[i].result))
        /\ calls' = Remove(calls, i)
        /\ UNCHANGED <<cfg, inputs, boot, lo, listeners, fetched>>

\* a click on the logout button, which a disabled button does not deliver;
\* logout() has called fetch()
LogoutClick ==
    /\ "logoutBtn.click" \in listeners
    /\ ~dom.logoutDisabled
    /\ SetPage(handleLogout(Page))
    /\ lo' = "sent"
    /\ fetched' = [fetched EXCEPT !.logout = @ + 1]
    /\ UNCHANGED <<cfg, inputs, boot, listeners, calls>>

\* the fetch of /auth/logout settles with r; logout() returns and
\* handleLogout runs to its end
LogoutSettleWith(r) ==
    /\ lo = "sent"
    /\ SetPage(handleLogoutResume(cfg, Page, logout(r)))
    /\ lo' = "done"
    /\ UNCHANGED <<cfg, inputs, boot, listeners, calls, fetched>>

LogoutSettle == \E r \in ResponsesFor(LogoutPath) : LogoutSettleWith(r)

Next ==
    \/ Bootstrap
    \/ AuthSettle
    \/ TypeMood
    \/ TypeGoal
    \/ SlideTracks
    \/ Submit
    \/ ApiFetchToken
    \/ SubmitSettle
    \/ SubmitRejected
    \/ LogoutClick
    \/ LogoutSettle

Spec == Init /\ [][Next]_vars

----------------------------------------------------------------------------
(* apiFetch under any caller: SpecFetch.                                   *)

\* the headers a caller passes in init.headers
CallerHeaders ==
    { NoHeaders,
      "Authorization" :> "Basic dXNlcjpwdw==",
      "authorization" :> "",
      "Accept" :> "text/plain",
      "Content-Type" :> "text/plain" }

CallerBodies ==
    { NoBody,
      Body("null", NoData),
      Body("string", JsonData(<<"s", "a", "d">>, <<>>, "", 0, Undef, FALSE)),
      Body("formdata", NoData) }

CallerInits ==
    { RequestInit(IF b.kind \in {"undefined", "null"} THEN "GET" ELSE "POST", h, b, cr) :
        h \in CallerHeaders, b \in CallerBodies, cr \in {"", "omit"} }

\* every pair of API base and page host without a broker, and a reachable
\* and a loopback API base with one
FetchConfigs ==
    { Config(b, h, FALSE, "") : b \in ApiBases, h \in {"moodmix.app", "localhost"} }
    \cup { Config(ApiBase("https://api.moodmix.app", TRUE, "api.moodmix.app"), "moodmix.app", TRUE, ""),
           Config(ApiBase("http://127.0.0.1:8000", TRUE, "127.0.0.1"), "moodmix.app", TRUE, "") }

InitFetch ==
    /\ cfg \in FetchConfigs
    /\ submitting = FALSE
    /\ authState = InitAuthState
    /\ dom = InitDom
    /\ inputs = [mood |-> <<>>, goal |-> <<>>, tracks |-> <<"3", "0">>]
    /\ boot = "load"
    /\ lo = "idle"
    /\ listeners = {}
    /\ calls = <<>>
    /\ location = frontendUrl(cfg, "webapp.html")
    /\ fetched = [me |-> 0, logout |-> 0, probe |-> "none", request |-> NoRequest]

\* a caller calls apiFetch(path, init)
FetchCall ==
    /\ calls = <<>>
    /\ \E init \in CallerInits :
          calls' = <<apiFetchBegin(cfg, "caller", EmotionsPath, init)>>
    /\ UNCHANGED <<cfg, submitting, authState, dom, inputs, boot, lo, listeners, location, fetched>>

\* the fetch of the caller's activation settles with r and apiFetch
\* returns or throws; the caller holds the settled promise
FetchSettleWith(i, r) ==
    /\ calls[i].owner = "caller"
    /\ calls[i].phase = "sent"
    /\ calls' = [calls EXCEPT ![i].phase = "settled",
                              ![i].response = r,
                              ![i].result = apiFetchSettle(r)]
    /\ UNCHANGED <<cfg, submitting, authState, dom, inputs, boot, lo, listeners, location, fetched>>

FetchSettle ==
    \E i \in DOMAIN calls : \E r \in ResponsesFor(calls[i].path) : FetchSettleWith(i, r)

NextFetch ==
    \/ FetchCall
    \/ ApiFetchToken
    \/ FetchSettle

SpecFetch == InitFetch /\ [][NextFetch]_vars

----------------------------------------------------------------------------
(* handleSubmit on either Session: SpecHandler.                            *)
(* The page registers handleSubmit only once the Session is authenticated, *)
(* so under Spec its unauthenticated branch never runs; here the handler   *)
(* is registered on a page whose Session is authenticated or not.          *)

SignedIn == [authenticated |-> TRUE, displayName |-> Str("Ann"), userId |-> Str("spotify-user-1")]

InitHandler ==
    /\ cfg \in PageConfigs
    /\ submitting = FALSE
    /\ authState \in {InitAuthState, SignedIn}
    /\ dom = InitDom
    /\ inputs \in [mood : MoodTexts, goal : GoalTexts, tracks : TracksTexts]
    /\ boot = "done"
    /\ lo = "idle"
    /\ listeners = bindEvents
    /\ calls = <<>>
    /\ location = frontendUrl(cfg, "webapp.html")
    /\ fetched = [me |-> 1, logout |-> 0, probe |-> "decoded", request |-> checkAuthFetch(cfg)]

NextHandler ==
    \/ Submit
    \/ ApiFetchToken
    \/ SubmitSettle
    \/ SubmitRejected

SpecHandler == InitHandler /\ [][NextHandler]_vars

----------------------------------------------------------------------------
(* handleSubmit on what detectMode tells apart: texts with keywords of     *)
(* several categories, in either order and in either case, with a keyword  *)
(* inside a longer word, with a keyword split over the two fields, and     *)
(* without any keyword.                                                    *)

ModeTexts ==
    { <<"T", "i", "r", "e", "d">>,
      <<"S", "T", "U", "D", "Y">>,
      <<"d", "e", "e", "p">>,
      <<"W", "o", "r", "k">>,
      <<"g", "y", "m">>,
      <<"G", "r", "u", "n", "t">>,
      <<"S", "t", "r", "e", "s", "s", "e", "d", " ", "o", "u", "t">>,
      <<"M", "A", "D">>,
      <<"s", "o", " ", "h", "a", "p", "p", "y">>,
      <<"C", "a", "l", "m", " ", "b", "e", "d", "r", "o", "o", "m">>,
      <<"f", "u", "r", "i", "o", "u", "s">>,
      <<"s", "a", "d">> }

InitMode ==
    /\ cfg \in PageConfigs
    /\ submitting = FALSE
    /\ authState = SignedIn
    /\ dom = InitDom
    /\ inputs \in [mood : ModeTexts, goal : ModeTexts, tracks : {<<"3", "0">>}]
    /\ boot = "done"
    /\ lo = "idle"
    /\ listeners = bindEvents
    /\ calls = <<>>
    /\ location = frontendUrl(cfg, "webapp.html")
    /\ fetched = [me |-> 1, logout |-> 0, probe |-> "decoded", request |-> checkAuthFetch(cfg)]

NextMode == Submit

SpecMode == InitMode /\ [][NextMode]_vars

----------------------------------------------------------------------------
(* frontend/config.js: how the API base URL and the base path are resolved *)
(* when the module is evaluated. Texts are sequences of characters.        *)

\* a value that may be missing (undefined, or an attribute or tag that is
\* not there)
Absent == [present |-> FALSE, chars |-> <<>>]
Chars(str) == [present |-> TRUE, chars |-> str]

\* String(a || ""): the text of a when it is there and not empty
TextOr(a, str) == IF a.present /\ a.chars # <<>> THEN a.chars ELSE str

RECURSIVE StripLeadingSlashes(_)
\* str.replace(/^\/+/, "")
StripLeadingSlashes(str) ==
    IF str # <<>> /\ Head(str) = "/" THEN StripLeadingSlashes(Tail(str)) ELSE str

RECURSIVE StripTrailingSlashes(_)
\* str.replace(/\/+$/, "")
StripTrailingSlashes(str) ==
    IF str # <<>> /\ str[Len(str)] = "/"
    THEN StripTrailingSlashes(SubSeq(str, 1, Len(str) - 1))
    ELSE str

\* str.lastIndexOf("/"), counted from 0; -1 when there is none
LastSlashIndex(str) ==
    IF \E k \in 1..Len(str) : str[k] = "/"
    THEN (CHOOSE k \in 1..Len(str) :
            str[k] = "/" /\ \A m \in (k + 1)..Len(str) : str[m] # "/") - 1
    ELSE 0 - 1

\* lines 5-7: meta is the content attribute of the tag
readMetaContent(meta) == IF meta.present THEN Trim(meta.chars) ELSE <<>>

\* lines 17-24
normalizeBasePath(value) ==
    LET trimmed == Trim(TextOr(value, <<>>))
    IN  IF trimmed = <<>> THEN <<>>
        ELSE <<"/">> \o StripTrailingSlashes(StripLeadingSlashes(trimmed))

\* lines 26-35
inferFrontendBasePathFromLocation(pathname) ==
    LET path == IF pathname = <<>> THEN <<"/">> ELSE pathname
        lastSlashIndex == LastSlashIndex(path)
    IN  IF lastSlashIndex <= 0 THEN <<>> ELSE SubSeq(path, 1, lastSlashIndex)

\* line 15, over what the page was loaded with
rawApiBase(page) ==
    TextOr(page.runtimeConfig.apiBaseUrl,
           TextOr(Chars(readMetaContent(page.metaApiBase)), page.origin))

\* line 99
rawFrontendBase(page) ==
    TextOr(page.runtimeConfig.frontendBasePath,
           inferFrontendBasePathFromLocation(page.pathname))

\* line 101
API_BASE_URL(page) == StripTrailingSlashes(rawApiBase(page))

\* line 102
FRONTEND_BASE_PATH(page) == normalizeBasePath(Chars(rawFrontendBase(page)))

\* lines 136-139, over the resolved base path
frontendUrlText(basePath, page) ==
    LET normalizedPage == StripLeadingSlashes(page)
    IN  IF basePath # <<>> THEN basePath \o <<"/">> \o normalizedPage
        ELSE <<"/">> \o normalizedPage

\* what a page can be loaded with
RuntimeApiBases ==
    { Absent, Chars(<<>>), Chars(<<"h", "t", "t", "p", ":", "/", "/", "r">>), Chars(<<"h", "t", "t", "p", ":", "/", "/", "r", "/", "/">>) }

MetaApiBases ==
    { Absent, Chars(<<>>), Chars(<<" ">>), Chars(<<" ", "h", "t", "t", "p", ":", "/", "/", "m", "/", " ">>) }

Origins == { <<"h", "t", "t", "p", ":", "/", "/", "o">> }

RuntimeBasePaths ==
    { Absent, Chars(<<>>), Chars(<<"a", "p", "p">>), Chars(<<" ", "/", "a", "p", "p", "/", "/", " ">>),
      Chars(<<"/">>) }

Pathnames ==
    { <<>>,
      <<"/">>,
      <<"/", "w", "e", "b", "a", "p", "p", ".", "h", "t", "m", "l">>,
      <<"/", "a", "p", "p", "/", "w", "e", "b", "a", "p", "p", ".", "h", "t", "m", "l">>,
      <<"/", "a", "/", "b", "/", "w", "e", "b", "a", "p", "p", ".", "h", "t", "m", "l">> }

\* the page names frontendUrl is called with
PageNames ==
    { <<"l", "o", "g", "i", "n", ".", "h", "t", "m", "l">>,
      <<"/", "w", "e", "b", "a", "p", "p", ".", "h", "t", "m", "l">>,
      <<"/", "/", "i", "n", "d", "e", "x", ".", "h", "t", "m", "l">> }

InitConfig ==
    /\ cfg \in [runtimeConfig : [apiBaseUrl : RuntimeApiBases, frontendBasePath : RuntimeBasePaths],
                metaApiBase : MetaApiBases,
                origin : Origins,
                pathname : Pathnames,
                loaded : {FALSE},
                apiBaseUrl : {<<>>},
                frontendBasePath : {<<>>}]
    /\ submitting = FALSE
    /\ authState = InitAuthState
    /\ dom = InitDom
    /\ inputs = [mood |-> <<>>, goal |-> <<>>, tracks |-> <<"3", "0">>]
    /\ boot = "load"
    /\ lo = "idle"
    /\ listeners = {}
    /\ calls = <<>>
    /\ location = cfg.pathname
    /\ fetched = [me |-> 0, logout |-> 0, probe |-> "none", request |-> NoRequest]

\* config.js is evaluated
LoadConfig ==
    /\ ~cfg.loaded
    /\ cfg' = [cfg EXCEPT !.loaded = TRUE,
                          !.apiBaseUrl = API_BASE_URL(cfg),
                          !.frontendBasePath = FRONTEND_BASE_PATH(cfg)]
    /\ UNCHANGED <<submitting, authState, dom, inputs, boot, lo, listeners, calls, location, fetched>>

\* window.location.replace(frontendUrl(page))
NavigateTo(page) ==
    /\ cfg.loaded
    /\ location' = frontendUrlText(cfg.frontendBasePath, page)
    /\ UNCHANGED <<cfg, submitting, authState, dom, inputs, boot, lo, listeners, calls, fetched>>

Navigate == \E page \in PageNames : NavigateTo(page)

NextConfig ==
    \/ LoadConfig
    \/ Navigate

SpecConfig == InitConfig /\ [][NextConfig]_vars

----------------------------------------------------------------------------
(* frontend/login.js: the login page, SpecLogin.                           *)
(* dom holds the login page's elements, inputs the parameters of the       *)
(* page's URL (a parameter that is absent is "", which every use in        *)
(* login.js treats as it treats null), lo the logout call of the click     *)
(* handler.                                                                *)

LoginPath == "/auth/login"

InitLoginDom == [loginErrorText |-> "", loginErrorHidden |-> TRUE, loginDisabled |-> FALSE]

\* lines 6-19
setLoginError(d, message) ==
    IF message = ""
    THEN [d EXCEPT !.loginErrorText = "", !.loginErrorHidden = TRUE]
    ELSE [d EXCEPT !.loginErrorText = message, !.loginErrorHidden = FALSE]

\* config.js lines 242-244: the URL assigned to window.location.href
redirectToBackendLogin(c) == apiUrl(c, LoginPath).base \o apiUrl(c, LoginPath).path

\* the click listener without line 32
loginClickLeavesEnabled(d) == setLoginError(d, "")

\* the click listener up to its await (lines 31-36)
loginClick(d) == [setLoginError(d, "") EXCEPT !.loginDisabled = TRUE]

\* the click listener from the settling of logout() on (lines 36-47): the
\* assignment to window.location.href navigates, or throws an error with
\* the given message; what logout() settled with is not read
loginClickResume(c, pg, settled, throws, message) ==
    IF throws
    THEN [pg EXCEPT !.dom = [setLoginError(pg.dom, IF message # "" THEN message
                                                  ELSE "Could not start Spotify OAuth.")
                                EXCEPT !.loginDisabled = FALSE]]
    ELSE [pg EXCEPT !.location = redirectToBackendLogin(c)]

\* lines 51-70
showLoginErrorFromQueryParam(d, q) ==
    LET errorCode == IF q.error # "" THEN q.error ELSE q.hashError
        errorDescription == IF q.errorDescription # "" THEN q.errorDescription
                            ELSE IF q.hashErrorDescription # "" THEN q.hashErrorDescription
                            ELSE q.message
        statusHint == IF q.spotifyStatus # "" THEN " [Spotify HTTP " \o q.spotifyStatus \o "]" ELSE ""
    IN  IF errorCode = "" THEN d
        ELSE IF errorDescription # "" THEN setLoginError(d, errorDescription)
        ELSE setLoginError(d, "Spotify OAuth failed (" \o errorCode \o ")" \o statusHint \o ". Please try again.")

\* the parameters the login page is opened with
LoginQuery(error, errorDescription, hashError, hashErrorDescription, message, spotifyStatus) ==
    [error |-> error, errorDescription |-> errorDescription, hashError |-> hashError,
     hashErrorDescription |-> hashErrorDescription, message |-> message,
     spotifyStatus |-> spotifyStatus]

LoginQueries ==
    { LoginQuery("", "", "", "", "", ""),
      LoginQuery("access_denied", "", "", "", "", ""),
      LoginQuery("access_denied", "User denied access", "", "", "", ""),
      LoginQuery("", "", "server_error", "Try later", "", ""),
      LoginQuery("oauth_failed", "", "", "", "State mismatch", ""),
      LoginQuery("token_exchange_failed", "", "", "", "", "400"),
      LoginQuery("", "Ignored without a code", "", "", "", "") }

\* the messages of the error a throwing assignment to location.href has
HrefErrors == {"", "Failed to set the 'href' property on 'Location'"}

InitLogin ==
    /\ cfg \in FetchConfigs
    /\ submitting = FALSE
    /\ authState = InitAuthState
    /\ dom = InitLoginDom
    /\ inputs \in LoginQueries
    /\ boot = "load"
    /\ lo = "idle"
    /\ listeners = {}
    /\ calls = <<>>
    /\ location = frontendUrl(cfg, "login.html")
    /\ fetched = [me |-> 0, logout |-> 0, probe |-> "none", request |-> NoRequest]

\* lines 72-77
LoginBootstrap ==
    /\ boot = "load"
    /\ dom' = showLoginErrorFromQueryParam(dom, inputs)
    /\ listeners' = {"loginBtn.click"}
    /\ boot' = "done"
    /\ UNCHANGED <<cfg, submitting, authState, inputs, lo, calls, location, fetched>>

\* a click on the login button, which a disabled button does not deliver;
\* logout() has called fetch()
LoginClick ==
    /\ "loginBtn.click" \in listeners
    /\ ~dom.loginDisabled
    /\ fetched.logout < MaxClicks
    /\ dom' = loginClick(dom)
    /\ lo' = "sent"
    /\ fetched' = [fetched EXCEPT !.logout = @ + 1]
    /\ UNCHANGED <<cfg, submitting, authState, inputs, boot, listeners, calls, location>>

\* the fetch of /auth/logout settles with r; logout() returns and the
\* listener runs to its end
LoginSettleWith(r, throws, message) ==
    /\ lo = "sent"
    /\ SetPage(loginClickResume(cfg, Page, logout(r), throws, message))
    /\ lo' = IF throws THEN "idle" ELSE "done"
    /\ UNCHANGED <<cfg, inputs, boot, listeners, calls, fetched>>

LoginNavigates == \E r \in ResponsesFor(LogoutPath) : LoginSettleWith(r, FALSE, "")

LoginNavigationThrows ==
    \E r \in ResponsesFor(LogoutPath) : \E message \in HrefErrors : LoginSettleWith(r, TRUE, message)

NextLogin ==
    \/ LoginBootstrap
    \/ LoginClick
    \/ LoginNavigates
    \/ LoginNavigationThrows

SpecLogin == InitLogin /\ [][NextLogin]_vars

----------------------------------------------------------------------------
(* frontend/script.js: the one-page variant, SpecScript.                   *)
(* dom holds the elements of script.js; calls holds the activations of     *)
(* its own apiFetch, which has no guard and reads no token, so that fetch  *)
(* is called at once; lo holds the locals of the handleSubmit activation   *)
(* that is suspended on a request.                                         *)

StatusPath == "/auth/spotify/status"
CreatePlaylistPath == "/spotify/create-playlist"

\* line 32
ScriptInitAuthState == [authenticated |-> FALSE, displayName |-> Null]

ScriptInitDom ==
    [statusText |-> "", spinnerHidden |-> FALSE, statusCardHidden |-> FALSE,
     loginViewHidden |-> TRUE, appViewHidden |-> TRUE,
     loginErrorText |-> "", loginErrorHidden |-> TRUE, connectedText |-> "",
     flowErrorText |-> "", flowErrorHidden |-> TRUE,
     createDisabled |-> FALSE, createText |-> "Create MoodMix",
     boxHidden |-> TRUE, titleText |-> "", topEmotionText |-> "", linkHref |-> "",
     tracksList |-> <<>>, lastPromptText |-> <<>>, lastPromptHidden |-> TRUE,
     charCount |-> 0]

\* the locals of handleSubmit that live across its awaits
Locals(text, emotions, topEmotion, playlistName) ==
    [text |-> text, emotions |-> emotions, topEmotion |-> topEmotion,
     playlistName |-> playlistName]
NoLocals == Locals(<<>>, <<>>, "", "")

\* lines 69-82: apiFetch up to its await of fetch()
scriptApiFetch(c, owner, path, init) ==
    LET headers == NewHeaders(init.headers)
        hasBody == init.body.kind \notin {"undefined", "null"}
        h1 == IF hasBody /\ ~HeadersHas(headers, "Content-Type")
              THEN HeadersSet(headers, "Content-Type", "application/json")
              ELSE headers
        h2 == HeadersSet(h1, "Accept", "application/json")
    IN  Call(owner, "sent", path, init, h2,
             [issued |-> TRUE, url |-> [base |-> c.apiBase.url, path |-> path],
              method |-> init.method, headers |-> h2, body |-> init.body,
              credentials |-> "include"],
             Pending)

ScriptGenericMessage(statusCode) ==
    "Request failed (" \o ToString(statusCode) \o "). Please try again."

\* the message of the SyntaxError response.json() rejects with
JsonSyntaxMessage == "Unexpected token < in JSON at position 0"

\* lines 84-91: what the body read gives, or the error it rejects with
scriptReadPayload(response) ==
    LET contentType == Or(response.contentType, Str("")).s
        body == response.body
    IN  IF ~body.readable THEN NetworkError(BodyReadError)
        ELSE IF IncludesApplicationJson(contentType)
        THEN IF body.parses THEN Resolved(body.value)
             ELSE Settled("reject", NullPayload, "SyntaxError", JsonSyntaxMessage, Undef)
        ELSE Resolved(IF body.text # "" THEN Obj([message |-> Str(body.text)], <<>>)
                      ELSE NullPayload)

\* apiFetch without the response.ok test of lines 93-97
scriptApiFetchSettleNoOkTest(response) ==
    IF response.failed THEN NetworkError(response.error) ELSE scriptReadPayload(response)

\* lines 78-99: what the promise of apiFetch settles with once fetch has
\* settled with response
scriptApiFetchSettle(response) ==
    IF response.failed THEN NetworkError(response.error)
    ELSE LET got == scriptReadPayload(response)
         IN  IF got.kind = "reject" THEN got
             ELSE IF ~ResponseOk(response)
             THEN Rejected(TextOf(Or(Or(Get(got.payload, "detail"), Get(got.payload, "message")),
                                     Str(ScriptGenericMessage(response.status)))))
             ELSE got

\* lines 102-107
renderAuthenticatedView(pg) ==
    [pg EXCEPT !.dom.statusCardHidden = TRUE,
               !.dom.loginViewHidden = TRUE,
               !.dom.appViewHidden = FALSE,
               !.dom.connectedText =
                   "Connected as " \o TextOf(Or(pg.authState.displayName, Str("Spotify user")))]

\* lines 109-113
renderLoginView(pg) ==
    [pg EXCEPT !.dom.statusCardHidden = TRUE,
               !.dom.appViewHidden = TRUE,
               !.dom.loginViewHidden = FALSE]

\* checkAuth of script.js up to its await (lines 116-123)
scriptCheckAuth(pg) ==
    [pg EXCEPT !.dom.statusText = "Checking Spotify session...",
               !.dom.spinnerHidden = FALSE,
               !.dom.statusCardHidden = FALSE,
               !.dom.loginErrorText = "", !.dom.loginErrorHidden = TRUE,
               !.dom.flowErrorText = "", !.dom.flowErrorHidden = TRUE]

\* checkAuth of script.js from the settling of apiFetch on (lines 123-142)
scriptCheckAuthResume(pg, settled) ==
    LET p1 == IF settled.kind = "resolve"
              THEN LET next == [authenticated |-> Truthy(Get(settled.payload, "authenticated")),
                                displayName |-> Or(Get(settled.payload, "displayName"), Null)]
                       p == [pg EXCEPT !.authState = next]
                   IN  IF next.authenticated THEN renderAuthenticatedView(p)
                       ELSE renderLoginView(p)
              ELSE [renderLoginView(pg) EXCEPT
                       !.dom.loginErrorText = IF settled.message # "" THEN settled.message
                                              ELSE "Failed to load Spotify auth status.",
                       !.dom.loginErrorHidden = FALSE]
    IN  [p1 EXCEPT !.dom.spinnerHidden = TRUE]

\* lines 145-149
scriptSetSubmitting(pg, next) ==
    [pg EXCEPT !.submitting = next,
               !.dom.createDisabled = next,
               !.dom.createText = IF next THEN "Creating playlist..." ELSE "Create MoodMix"]

\* lines 34-37, over the labels modelled (any other label modelled starts
\* with a capital)
capitalize(value) ==
    CASE value = "" -> "Unknown"
      [] value = "joy" -> "Joy"
      [] value = "sadness" -> "Sadness"
      [] value = "mood" -> "Mood"
      [] OTHER -> value

\* clampScore(Number(score)) for a score that is a number, undefined (NaN)
\* or null (lines 39-44)
clampScore(score) ==
    IF score.t = "number" /\ score.s # "NaN"
    THEN IF score.n < 0 THEN 0 ELSE IF score.n > 1 THEN 1 ELSE score.n
    ELSE 0

\* lines 46-51
normalizeEmotions(items) ==
    [i \in 1..Len(items) |-> [label |-> items[i].label, score |-> clampScore(items[i].score)]]

\* [...emotions].sort((a, b) => b.score - a.score)[0]?.label: the sort is
\* stable, so the first of the emotions with the highest score
TopLabel(emotions) ==
    IF emotions = <<>> THEN Undef
    ELSE LET best == CHOOSE i \in 1..Len(emotions) :
                        \A j \in 1..Len(emotions) :
                            \/ emotions[j].score < emotions[i].score
                            \/ emotions[j].score = emotions[i].score /\ i <= j
         IN  emotions[best].label

\* the catch and finally blocks of handleSubmit (lines 225-229)
scriptCatch(pg, message) ==
    scriptSetSubmitting(
        setError(pg, IF message # "" THEN message ELSE "Failed to create playlist."), FALSE)

\* handleSubmit from the submit event to its return or its first await
\* (lines 173-198); setError and setHidden of script.js (lines 53-67) are
\* those of webapp.js
scriptHandleSubmit(c, pg, inp) ==
    IF pg.submitting THEN [page |-> pg, started |-> FALSE, call |-> NoCall, text |-> <<>>]
    ELSE LET p0 == setError(pg, "")
             text == Trim(inp.mood)
         IN  IF text = <<>>
             THEN [page |-> setError(p0, "Tell me how you are feeling first."),
                   started |-> FALSE, call |-> NoCall, text |-> <<>>]
             ELSE IF ~p0.authState.authenticated
             THEN [page |-> renderLoginView(setError(p0, "Login with Spotify to continue.")),
                   started |-> FALSE, call |-> NoCall, text |-> <<>>]
             ELSE [page |-> setHidden(scriptSetSubmitting(p0, TRUE), "boxHidden", TRUE),
                   started |-> TRUE,
                   call |-> scriptApiFetch(c, "handleSubmit", EmotionsPath,
                               RequestInit("POST", NoHeaders, Body("string", [text |-> text]), "")),
                   text |-> text]

\* handleSubmit from the settling of the /emotions request to its second
\* await or its end (lines 195-214, 225-229); a value of `emotions` that
\* is not an array has no map method, and a topEmotion that is not a
\* string has no charAt method
scriptEmotionsResume(c, pg, text, settled) ==
    IF settled.kind = "reject"
    THEN [page |-> scriptCatch(pg, settled.message), started |-> FALSE, call |-> NoCall,
          locals |-> NoLocals]
    ELSE IF Truthy(Get(settled.payload, "emotions"))
    THEN [page |-> scriptCatch(pg, "(items || []).map is not a function"),
          started |-> FALSE, call |-> NoCall, locals |-> NoLocals]
    ELSE LET emotions == normalizeEmotions(settled.payload.links)
             topEmotion == Or(Or(Get(settled.payload, "topEmotion"), TopLabel(emotions)),
                              Str("mood"))
         IN  IF topEmotion.t # "string"
             THEN [page |-> scriptCatch(pg, "value.charAt is not a function"),
                   started |-> FALSE, call |-> NoCall, locals |-> NoLocals]
             ELSE LET playlistName == "MoodMix: " \o capitalize(topEmotion.s)
                  IN  [page |-> pg,
                       started |-> TRUE,
                       call |-> scriptApiFetch(c, "handleSubmit", CreatePlaylistPath,
                                   RequestInit("POST", NoHeaders,
                                       Body("string", [text |-> text, emotions |-> emotions,
                                                       playlistName |-> playlistName,
                                                       isPublic |-> FALSE]),
                                       "")),
                       locals |-> Locals(text, emotions, topEmotion.s, playlistName)]

\* lines 157-168: the items of #tracks-list
TracksListItems(tracks) ==
    IF Len(tracks) = 0 THEN <<"No tracks returned.">>
    ELSE [i \in 1..(IF Len(tracks) < 10 THEN Len(tracks) ELSE 10) |->
             ToString(i) \o ". " \o TextOf(tracks[i].name) \o " by " \o TextOf(tracks[i].artist)]

\* renderPlaylist of script.js (lines 151-171) on {...playlistData,
\* playlistName, topEmotion}
scriptRenderPlaylist(pg, playlistData, locals) ==
    [pg EXCEPT !.dom.titleText = locals.playlistName,
               !.dom.topEmotionText = "Top mood detected: " \o capitalize(locals.topEmotion),
               !.dom.linkHref = TextOf(Get(playlistData, "playlistUrl")),
               !.dom.tracksList = TracksListItems(playlistData.links),
               !.dom.boxHidden = FALSE]

\* handleSubmit from the settling of the /spotify/create-playlist request
\* to its end (lines 206-229): the page, and whether the mood field was
\* cleared
scriptCreateResume(pg, locals, settled) ==
    IF settled.kind = "reject"
    THEN [page |-> scriptCatch(pg, settled.message), cleared |-> FALSE]
    ELSE LET p1 == scriptRenderPlaylist(pg, settled.payload, locals)
             p2 == [p1 EXCEPT !.dom.lastPromptText = locals.text,
                              !.dom.lastPromptHidden = FALSE,
                              !.dom.charCount = 0]
         IN  [page |-> scriptSetSubmitting(p2, FALSE), cleared |-> TRUE]

\* GET /auth/spotify/status
StatusResponses ==
    { HttpResponse(200, JsonType, JsonBody("{...}",
          Obj(("authenticated" :> Bool(TRUE)) @@ ("displayName" :> Str("Ann")), <<>>))),
      HttpResponse(200, JsonType, JsonBody("{...}", Obj("authenticated" :> Bool(TRUE), <<>>))),
      HttpResponse(200, JsonType, JsonBody("{...}", Obj("authenticated" :> Bool(FALSE), <<>>))),
      HttpResponse(200, JsonType, JsonBody("null", NullPayload)),
      HttpResponse(200, JsonType, TextBody("<html></html>")),
      HttpResponse(401, JsonType, ErrorBody),
      TransportFailure("Failed to fetch") }

Emotion(label, score) == [label |-> label, score |-> score]

\* POST /emotions
EmotionsResponses ==
    { HttpResponse(200, JsonType, JsonBody("{...}", b)) :
        b \in { Obj("topEmotion" :> Str("joy"), <<Emotion(Str("joy"), Num(1))>>),
                Obj(NoFields, <<Emotion(Str("sadness"), Num(0)), Emotion(Str("joy"), Num(2)),
                                Emotion(Str("Calm"), Num(1))>>),
                Obj(NoFields, <<Emotion(Undef, Undef)>>),
                Obj(NoFields, <<>>),
                Obj("emotions" :> Str("joy"), <<>>),
                Obj("topEmotion" :> Num(1), <<>>),
                NullPayload } }
    \cup { HttpResponse(200, JsonType, TextBody("<html>Bad Gateway</html>")),
           HttpResponse(200, Str("text/plain"), BrokenBody),
           HttpResponse(422, JsonType, DetailAndMessage),
           HttpResponse(500, JsonType, MessageOnly),
           HttpResponse(500, JsonType, EmptyObject),
           HttpResponse(502, Str("text/html"), TextBody("")),
           TransportFailure("Failed to fetch"),
           TransportFailure("") }

\* POST /spotify/create-playlist
CreateResponses ==
    { HttpResponse(200, JsonType, JsonBody("{...}", Obj("playlistUrl" :> PlaylistUrl, TrackLinks(n)))) :
        n \in 0..MaxLinks }
    \cup { HttpResponse(200, JsonType, JsonBody("{}", Obj(NoFields, <<>>))),
           HttpResponse(200, JsonType, JsonBody("null", NullPayload)),
           HttpResponse(200, JsonType, BrokenBody),
           HttpResponse(401, JsonType, ErrorBody),
           HttpResponse(500, Str("text/plain"), TextBody("Internal Server Error")),
           TransportFailure("Failed to fetch"),
           TransportFailure("") }

InitScript ==
    /\ cfg \in PageConfigs
    /\ submitting = FALSE
    /\ authState = ScriptInitAuthState
    /\ dom = ScriptInitDom
    /\ inputs \in [mood : MoodTexts, goal : {<<>>}, tracks : {<<"3", "0">>}]
    /\ boot = "load"
    /\ lo = NoLocals
    /\ listeners = {}
    /\ calls = <<>>
    /\ location = frontendUrl(cfg, "index.html")
    /\ fetched = [me |-> 0, logout |-> 0, probe |-> "none", request |-> NoRequest]

\* the module is evaluated (lines 232-242): the listeners are added and
\* checkAuth() runs up to its await
ScriptLoad ==
    /\ boot = "load"
    /\ SetPage(scriptCheckAuth(Page))
    /\ listeners' = {"loginBtn.click", "moodInput.input", "moodForm.submit"}
    /\ calls' = Append(calls, scriptApiFetch(cfg, "checkAuth", StatusPath,
                                  RequestInit("GET", NoHeaders, NoBody, "")))
    /\ boot' = "probing"
    /\ UNCHANGED <<cfg, inputs, lo, fetched>>

\* the status request settles with r and checkAuth runs to its end
ScriptAuthSettleWith(i, r) ==
    /\ calls[i].owner = "checkAuth"
    /\ SetPage(scriptCheckAuthResume(Page, scriptApiFetchSettle(r)))
    /\ calls' = Remove(calls, i)
    /\ boot' = "done"
    /\ UNCHANGED <<cfg, inputs, lo, listeners, fetched>>

ScriptAuthSettle == \E i \in DOMAIN calls : \E r \in StatusResponses : ScriptAuthSettleWith(i, r)

\* the user edits the mood field (lines 236-238)
ScriptTypeMood ==
    /\ "moodInput.input" \in listeners
    /\ \E v \in MoodTexts \ {inputs.mood} : inputs' = [inputs EXCEPT !.mood = v]
    /\ dom' = [dom EXCEPT !.charCount = Len(inputs'.mood)]
    /\ UNCHANGED <<cfg, submitting, authState, boot, lo, listeners, calls, location, fetched>>

\* a submit event on the form
ScriptSubmit ==
    /\ "moodForm.submit" \in listeners
    /\ LET r == scriptHandleSubmit(cfg, Page, inputs)
       IN  /\ SetPage(r.page)
           /\ calls' = IF r.started THEN Append(calls, r.call) ELSE calls
           /\ lo' = IF r.started THEN Locals(r.text, <<>>, "", "") ELSE lo
    /\ UNCHANGED <<cfg, inputs, boot, listeners, fetched>>

\* the /emotions request of the activation i settles with r
ScriptEmotionsSettleWith(i, r) ==
    /\ calls[i].owner = "handleSubmit"
    /\ calls[i].path = EmotionsPath
    /\ LET e == scriptEmotionsResume(cfg, Page, lo.text, scriptApiFetchSettle(r))
       IN  /\ SetPage(e.page)
           /\ calls' = IF e.started THEN Append(Remove(calls, i), e.call) ELSE Remove(calls, i)
           /\ lo' = e.locals
    /\ UNCHANGED <<cfg, inputs, boot, listeners, fetched>>

ScriptEmotionsSettle ==
    \E i \in DOMAIN calls : \E r \in EmotionsResponses : ScriptEmotionsSettleWith(i, r)

\* the /spotify/create-playlist request of the activation i settles with r
ScriptCreateSettleWith(i, r) ==
    /\ calls[i].owner = "handleSubmit"
    /\ calls[i].path = CreatePlaylistPath
    /\ LET e == scriptCreateResume(Page, lo, scriptApiFetchSettle(r))
       IN  /\ SetPage(e.page)
           /\ inputs' = IF e.cleared THEN [inputs EXCEPT !.mood = <<>>] ELSE inputs
    /\ calls' = Remove(calls, i)
    /\ lo' = NoLocals
    /\ UNCHANGED <<cfg, boot, listeners, fetched>>

ScriptCreateSettle ==
    \E i \in DOMAIN calls : \E r \in CreateResponses : ScriptCreateSettleWith(i, r)

\* a click on the login button of the login view (lines 232-234)
ScriptLoginClick ==
    /\ "loginBtn.click" \in listeners
    /\ ~dom.loginViewHidden
    /\ location # cfg.apiBase.url \o "/auth/spotify/login"
    /\ location' = cfg.apiBase.url \o "/auth/spotify/login"
    /\ UNCHANGED <<cfg, submitting, authState, dom, inputs, boot, lo, listeners, calls, fetched>>

NextScript ==
    \/ ScriptLoad
    \/ ScriptAuthSettle
    \/ ScriptTypeMood
    \/ ScriptSubmit
    \/ ScriptEmotionsSettle
    \/ ScriptCreateSettle
    \/ ScriptLoginClick

SpecScript == InitScript /\ [][NextScript]_vars

----------------------------------------------------------------------------
(* lib/api.ts: the request client of the Next.js variant, SpecLib.         *)
(* Its apiFetch has no guard and reads no token, so that fetch is called   *)
(* at once; its base URL is the one of the configuration.                  *)

\* lines 48-51, for a path with a leading slash
buildApiUrl(c, path) == [base |-> c.apiBase.url, path |-> path]

\* lines 36-44: a promise rejected with new ApiError(message, status)
ApiError(message, status) == Settled("reject", NullPayload, "ApiError", message, Num(status))

LibGenericMessage(statusCode) == "Request failed with status " \o ToString(statusCode) \o "."

\* a ?? b
Coalesce(a, b) == IF a.t \in {"undefined", "null"} THEN b ELSE a

\* lines 61-82; reading a property of a null payload throws inside the try
\* block
getErrorMessageFromResponse(response) ==
    LET contentType == Coalesce(response.contentType, Str("")).s
        body == response.body
        generic == LibGenericMessage(response.status)
    IN  IF IncludesApplicationJson(contentType)
        THEN IF body.readable /\ body.parses /\ body.value.t # "null"
             THEN TextOf(Coalesce(Coalesce(Get(body.value, "detail"), Get(body.value, "message")),
                                  Str(generic)))
             ELSE generic
        ELSE IF body.readable /\ body.text # "" THEN body.text ELSE generic

\* lines 84-101: apiFetch up to its await of fetch(); the headers are built
\* as in config.js
libApiFetch(c, owner, path, init) ==
    LET headers == BaseHeaders(init)
    IN  Call(owner, "sent", path, init, headers,
             [issued |-> TRUE, url |-> buildApiUrl(c, path), method |-> init.method,
              headers |-> headers, body |-> init.body, credentials |-> "include"],
             Pending)

\* apiFetch without the 204 test of lines 107-109
libApiFetchSettleNo204Test(response) ==
    IF response.failed THEN NetworkError(response.error)
    ELSE IF ~ResponseOk(response)
    THEN ApiError(getErrorMessageFromResponse(response), response.status)
    ELSE IF ~IncludesApplicationJson(Coalesce(response.contentType, Str("")).s)
    THEN Resolved(Scalar(Undef))
    ELSE IF ~response.body.readable THEN NetworkError(BodyReadError)
    ELSE IF ~response.body.parses
    THEN Settled("reject", NullPayload, "SyntaxError", JsonSyntaxMessage, Undef)
    ELSE Resolved(response.body.value)

\* lines 97-116: what the promise of apiFetch settles with once fetch has
\* settled with response
libApiFetchSettle(response) ==
    IF response.failed THEN NetworkError(response.error)
    ELSE IF ~ResponseOk(response)
    THEN ApiError(getErrorMessageFromResponse(response), response.status)
    ELSE IF response.status = 204 THEN Resolved(Scalar(Undef))
    ELSE IF ~IncludesApplicationJson(Coalesce(response.contentType, Str("")).s)
    THEN Resolved(Scalar(Undef))
    ELSE IF ~response.body.readable THEN NetworkError(BodyReadError)
    ELSE IF ~response.body.parses
    THEN Settled("reject", NullPayload, "SyntaxError", JsonSyntaxMessage, Undef)
    ELSE Resolved(response.body.value)

\* the responses apiFetch tells apart, with those of status 204
LibResponses ==
    AnyResponses
    \cup { HttpResponse(204, tb[1], tb[2]) :
             tb \in { <<Null, TextBody("")>>, <<JsonType, TextBody("")>>, <<JsonType, EmptyObject>> } }

\* a caller calls apiFetch(path, init)
LibCall ==
    /\ calls = <<>>
    /\ \E init \in CallerInits :
          calls' = <<libApiFetch(cfg, "lib", EmotionsPath, init)>>
    /\ UNCHANGED <<cfg, submitting, authState, dom, inputs, boot, lo, listeners, location, fetched>>

\* the fetch of the caller's activation settles with r and apiFetch
\* returns or throws; the caller holds the settled promise
LibSettleWith(i, r) ==
    /\ calls[i].owner = "lib"
    /\ calls[i].phase = "sent"
    /\ calls' = [calls EXCEPT ![i].phase = "settled",
                              ![i].response = r,
                              ![i].result = libApiFetchSettle(r)]
    /\ UNCHANGED <<cfg, submitting, authState, dom, inputs, boot, lo, listeners, location, fetched>>

LibSettle == \E i \in DOMAIN calls : \E r \in LibResponses : LibSettleWith(i, r)

NextLib ==
    \/ LibCall
    \/ LibSettle

SpecLib == InitFetch /\ [][NextLib]_vars

----------------------------------------------------------------------------
(* Properties.                                                             *)

\* the /generate-mood-arc-playlist requests fetch() has been called for and
\* has not settled
OutstandingGenerations ==
    Cardinality({ i \in DOMAIN calls :
                    calls[i].path = GeneratePath /\ calls[i].phase = "sent" })

\* str is empty after trimming whitespace
Blank(str) == \A k \in 1..Len(str) : str[k] \in Whitespace

MoodMessage == "Tell me how you are feeling right now."
GoalMessage == "Tell me how you want to feel."
LoginPage == frontendUrl(cfg, "login.html")

\* C1: at most one /generate-mood-arc-playlist request is outstanding at
\* any time, and a submit event that arrives while handleSubmit still awaits
\* a generation request issues no request and changes no state.
C1_OneOutstandingRequest ==
    /\ OutstandingGenerations <= 1
    /\ ("moodForm.submit" \in listeners /\ calls # <<>>) =>
          LET r == handleSubmit(cfg, Page, inputs)
          IN  ~r.started /\ r.page = Page

\* C1 witness: a request is outstanding while the form holds two valid
\* fields, so that only the lock keeps a submit event from sending another
C1_Witness ==
    /\ OutstandingGenerations = 1
    /\ "moodForm.submit" \in listeners
    /\ ~Blank(inputs.mood) /\ ~Blank(inputs.goal)
    /\ authState.authenticated

\* C2: every step in which handleSubmit resumes from its generation request
\* (it resolved with a playlist URL, without one, or it rejected) leaves
\* submitting false and the button enabled with its original label.
C2_LockReleased ==
    [][ Len(calls') < Len(calls) =>
            /\ ~submitting'
            /\ ~dom'.createDisabled
            /\ dom'.createText = "Create playlist" ]_vars

\* C2 witness: a first request resolved with a playlist URL and a later one
\* rejected; the lock is free
C2_Witness ==
    /\ ~submitting /\ ~dom.createDisabled /\ calls = <<>>
    /\ dom.linkHref # ""
    /\ dom.flowErrorText = "Failed to fetch"

\* C3 as stated: a submit with a blank current-mood or goal-mood field
\* starts no request, does not turn submitting on and sets the flow error
\* to the message of the first blank field.
C3_AsStated ==
    ("moodForm.submit" \in listeners /\ (Blank(inputs.mood) \/ Blank(inputs.goal))) =>
        LET r == handleSubmit(cfg, Page, inputs)
        IN  /\ ~r.started
            /\ r.page.submitting => submitting
            /\ r.page.dom.flowErrorText = IF Blank(inputs.mood) THEN MoodMessage ELSE GoalMessage

\* C3 as amended: the same of a submit that arrives while no submission is
\* in progress (submitting is false); one that arrives during a submission
\* is ignored and sets no message.
C3_BlankFieldRejected ==
    /\ ("moodForm.submit" \in listeners /\ ~submitting /\ (Blank(inputs.mood) \/ Blank(inputs.goal))) =>
          LET r == handleSubmit(cfg, Page, inputs)
          IN  /\ ~r.started
              /\ ~r.page.submitting
              /\ r.page.dom.flowErrorText = IF Blank(inputs.mood) THEN MoodMessage ELSE GoalMessage
    /\ \A i \in DOMAIN calls :
          ~Blank(calls[i].init.body.data.text) /\ ~Blank(calls[i].init.body.data.goal)

\* C3 witness: the goal-mood message is shown for a blank goal next to a
\* filled current mood, and nothing was sent
C3_Witness ==
    /\ dom.flowErrorText = GoalMessage
    /\ ~Blank(inputs.mood) /\ Blank(inputs.goal) /\ inputs.goal # <<>>
    /\ ~submitting /\ calls = <<>>

\* C4: a generation request exists only while authState.authenticated, and
\* a submit with two valid fields on an unauthenticated Session redirects
\* to the login page, starts no request and does not turn submitting on.
C4_RequiresSession ==
    /\ calls # <<>> => authState.authenticated
    /\ ("moodForm.submit" \in listeners /\ ~submitting /\ ~authState.authenticated
            /\ ~Blank(inputs.mood) /\ ~Blank(inputs.goal)) =>
          LET r == handleSubmit(cfg, Page, inputs)
          IN  /\ ~r.started
              /\ ~r.page.submitting
              /\ r.page.location = LoginPage

\* C4 witness: handleSubmit has redirected an unauthenticated page
C4_Witness ==
    /\ ~authState.authenticated
    /\ location = LoginPage
    /\ dom.flowErrorText = "Spotify session not available."
    /\ ~submitting /\ calls = <<>>

\* C5: a page load starts exactly one auth check; listeners exist only once
\* it has settled as authenticated; a page whose check settled as
\* unauthenticated has no listener, no generation call and no logout call.
C5_BoundAfterAuth ==
    /\ fetched.me = IF boot = "load" THEN 0 ELSE 1
    /\ listeners # {} => boot = "done" /\ authState.authenticated
    /\ (boot = "done" /\ ~authState.authenticated) =>
          listeners = {} /\ calls = <<>> /\ fetched.logout = 0 /\ lo = "idle"
    /\ (calls # <<>> \/ fetched.logout > 0) => boot = "done" /\ authState.authenticated

\* C5 witness: the check settled as authenticated, the handlers are bound,
\* and a generation request and a logout request have been sent
C5_Witness ==
    /\ boot = "done" /\ fetched.me = 1
    /\ listeners = bindEvents
    /\ OutstandingGenerations = 1
    /\ fetched.logout = 1

\* the auth probe failed: fetch() rejected, the status is not a success
\* status, or the body does not decode as JSON
ProbeFailed(r) ==
    \/ r.failed
    \/ r.status \notin 200..299
    \/ ~r.body.readable
    \/ ~r.body.parses

\* C6: whenever bootstrap resumes from an auth probe that failed, checkAuth
\* resolved with null, ensureAuthenticated returned false, the page is sent
\* to the login page with an unauthenticated Session, no handler is bound
\* and no error was caught on the way (the flow error is left as it was).
C6_FailedProbeRedirects ==
    [][ \A r \in AuthResponses :
          (AuthSettleWith(r) /\ ProbeFailed(r)) =>
            /\ checkAuth(r) = Resolved(NullPayload)
            /\ ~ensureAuthenticated(cfg, Page, checkAuth(r)).returns
            /\ location' = LoginPage
            /\ ~authState'.authenticated
            /\ listeners' = {}
            /\ dom' = dom ]_vars

\* C6 witness: the probe's body did not decode and the page was redirected
C6_Witness ==
    /\ boot = "done"
    /\ fetched.probe = "undecodable"
    /\ location = LoginPage
    /\ ~authState.authenticated
    /\ dom.flowErrorHidden

\* the value of field key of the JSON object that response r carries;
\* undefined when r carries none
AuthField(r, key) ==
    IF ProbeFailed(r) \/ r.body.value.t # "object" \/ key \notin DOMAIN r.body.value.o
    THEN Undef
    ELSE r.body.value.o[key]

NonEmptyString(v) == v.t = "string" /\ v.s # ""

\* C7: whenever bootstrap resumes from the auth probe, the Session becomes
\* authenticated exactly when the response has authenticated = true and a
\* non-empty user_id; then userId is that user_id and displayName is the
\* response's display_name, or the user_id when display_name is absent or
\* empty; otherwise the Session stays unauthenticated and the page goes to
\* the login page.
C7_SessionFromResponse ==
    [][ \A r \in AuthResponses :
          AuthSettleWith(r) =>
            LET accepted == /\ AuthField(r, "authenticated") = Bool(TRUE)
                            /\ NonEmptyString(AuthField(r, "user_id"))
            IN  /\ authState'.authenticated <=> accepted
                /\ accepted =>
                     /\ authState'.userId = AuthField(r, "user_id")
                     /\ authState'.displayName =
                          IF NonEmptyString(AuthField(r, "display_name"))
                          THEN AuthField(r, "display_name")
                          ELSE AuthField(r, "user_id")
                     /\ location' = location
                /\ ~accepted =>
                     /\ authState' = InitAuthState
                     /\ location' = LoginPage ]_vars

\* C7 witness: the Session is authenticated and shows the user_id because
\* the response carried no usable display_name
C7_Witness ==
    /\ authState.authenticated
    /\ authState.userId = Str("spotify-user-1")
    /\ authState.displayName = authState.userId
    /\ dom.connectedText = "Connected as spotify-user-1"

\* the access token the identity broker yields for outcome bs: empty when
\* no broker is configured, the lookup fails, there is no session or the
\* session has no token
BrokerToken(bs) ==
    IF cfg.supabase /\ bs.kind = "session" /\ bs.access_token.t = "string"
    THEN bs.access_token.s
    ELSE ""

\* the names under which init.headers holds an Authorization header
CallerAuthorization(init) ==
    { k \in DOMAIN init.headers : k \in {"Authorization", "authorization", "AUTHORIZATION"} }

\* C8: whenever apiFetch issues its request, the request carries
\* "Authorization: Bearer <token>" exactly when the broker yielded a
\* non-empty token and the caller passed no Authorization header; a caller's
\* Authorization header is sent with the caller's value; without a broker,
\* or without a token, no Authorization header is added.
C8_BearerAttached ==
    [][ \A i \in DOMAIN calls : \A bs \in BrokerSessions :
          ApiFetchTokenWith(i, bs) =>
            LET sent == calls'[i].request.headers
                own == CallerAuthorization(calls[i].init)
            IN  /\ calls'[i].request.issued
                /\ own # {} =>
                     /\ "authorization" \in DOMAIN sent
                     /\ \E k \in own : sent["authorization"] = calls[i].init.headers[k]
                /\ (own = {} /\ BrokerToken(bs) # "") =>
                     /\ "authorization" \in DOMAIN sent
                     /\ sent["authorization"] = "Bearer " \o BrokerToken(bs)
                /\ (own = {} /\ BrokerToken(bs) = "") => "authorization" \notin DOMAIN sent
                /\ ~cfg.supabase => DOMAIN sent \ {"authorization"} = DOMAIN calls[i].headers \ {"authorization"} ]_vars

\* C8 witness: a request of a caller that passed no Authorization header
\* went out with the broker's token
C8_Witness ==
    \E i \in DOMAIN calls :
        /\ calls[i].phase = "sent"
        /\ CallerAuthorization(calls[i].init) = {}
        /\ "authorization" \in DOMAIN calls[i].request.headers
        /\ calls[i].request.headers["authorization"] = "Bearer tok-1"

\* the content type of r names JSON
JsonTyped(r) ==
    r.contentType \in {Str("application/json"), Str("application/json; charset=utf-8")}

StatusMessage(r) == "Request failed (" \o ToString(r.status) \o ")."

\* the field key of the decoded JSON object of r when it is a non-empty
\* string, "" otherwise
ErrorField(r, key) ==
    IF /\ r.body.readable /\ r.body.parses /\ r.body.value.t = "object"
       /\ key \in DOMAIN r.body.value.o
       /\ NonEmptyString(r.body.value.o[key])
    THEN r.body.value.o[key].s
    ELSE ""

\* the message C9 names for the non-success response r
StatedMessage(r) ==
    IF JsonTyped(r)
    THEN IF ErrorField(r, "detail") # "" THEN ErrorField(r, "detail")
         ELSE IF ErrorField(r, "message") # "" THEN ErrorField(r, "message")
         ELSE StatusMessage(r)
    ELSE IF r.body.readable /\ r.body.text # "" THEN r.body.text
         ELSE StatusMessage(r)

\* the calls of a caller of apiFetch that settled on a non-success response
FailedCalls ==
    { i \in DOMAIN calls :
        /\ calls[i].owner = "caller" /\ calls[i].phase = "settled"
        /\ calls[i].request.issued
        /\ ~calls[i].response.failed
        /\ calls[i].response.status \notin 200..299 }

\* C9 as stated: on every non-success response apiFetch rejects with the
\* JSON body's detail, else its message, else the raw text of a non-JSON
\* body, else the generic message with the status code.
C9_AsStated ==
    \A i \in FailedCalls :
        /\ calls[i].result.kind = "reject"
        /\ calls[i].result.message = StatedMessage(calls[i].response)

\* the response is JSON whose whole body is a non-empty string
JsonStringBody(r) ==
    /\ JsonTyped(r) /\ r.body.readable /\ r.body.parses
    /\ NonEmptyString(r.body.value)

\* C9 as amended: on every non-success response apiFetch rejects; the
\* message is the JSON body itself when that is a non-empty string, else
\* the order of C9; and a non-JSON body that cannot be read rejects with
\* the error of the read instead of the generic message.
C9_ErrorMessageOrder ==
    \A i \in FailedCalls :
        LET r == calls[i].response
        IN  /\ calls[i].result.kind = "reject"
            /\ calls[i].result.message =
                 IF JsonStringBody(r) THEN r.body.value.s
                 ELSE IF ~JsonTyped(r) /\ ~r.body.readable THEN BodyReadError
                 ELSE StatedMessage(r)

\* C9 witness: a 404 whose JSON body has both fields was rejected with detail
C9_Witness ==
    \E i \in FailedCalls :
        /\ calls[i].response.status = 404
        /\ ErrorField(calls[i].response, "detail") # ""
        /\ ErrorField(calls[i].response, "message") # ""
        /\ ErrorField(calls[i].response, "message") # ErrorField(calls[i].response, "detail")
        /\ calls[i].result = Rejected(ErrorField(calls[i].response, "detail"))

\* the playlist URL of generation response r, "" when it has none
UrlOf(r) ==
    IF NonEmptyString(AuthField(r, "playlist_url")) THEN AuthField(r, "playlist_url").s
    ELSE IF NonEmptyString(AuthField(r, "playlistUrl")) THEN AuthField(r, "playlistUrl").s
    ELSE ""

\* the track_links of generation response r
LinksOf(r) == IF ProbeFailed(r) THEN <<>> ELSE r.body.value.links

\* the anchors among the children of #track-list
Anchors(children) == { k \in DOMAIN children : children[k].tag = "a" }

\* what a step of handleSubmit that resumes from response r renders:
\* with a URL the panel and the link are shown and the form is hidden; in
\* the fallback case the track list holds one anchor per track link, else
\* the track list is left as it was
Renders(r, fallback) ==
    /\ UrlOf(r) # "" =>
         /\ ~dom'.boxHidden /\ ~dom'.linkHidden /\ dom'.linkHref = UrlOf(r)
         /\ dom'.formHidden
    /\ fallback =>
         /\ Cardinality(Anchors(dom'.trackList)) = Len(LinksOf(r))
         /\ \A k \in DOMAIN LinksOf(r) :
               \E a \in Anchors(dom'.trackList) : dom'.trackList[a].href = LinksOf(r)[k].url.s
         /\ ~dom'.trackListHidden
    /\ ~fallback => dom'.trackList = dom.trackList /\ dom'.trackListHidden = dom.trackListHidden

HttpSuccess(r) == ~r.failed /\ r.status \in 200..299

NoUrlMessage == "Playlist could not be created. Please try again."

\* C11: whenever handleSubmit resumes from a generation response with a
\* success status and no playlist URL (a null payload included), the flow
\* error shows the response's spotify_note, or the fixed string when the
\* note is absent or empty; the form's visibility is unchanged and the
\* playlist panel and link stay hidden.
C11_NoUrlShowsNote ==
    [][ \A i \in DOMAIN calls : \A r \in GenerationResponses :
          (calls' = Remove(calls, i) /\ SubmitSettleWith(i, r)
              /\ HttpSuccess(r) /\ UrlOf(r) = "") =>
            /\ dom'.flowErrorText =
                 IF NonEmptyString(AuthField(r, "spotify_note"))
                 THEN AuthField(r, "spotify_note").s
                 ELSE NoUrlMessage
            /\ ~dom'.flowErrorHidden
            /\ dom'.formHidden = dom.formHidden
            /\ dom'.boxHidden
            /\ dom'.linkHidden = dom.linkHidden
            /\ dom'.linkHref = dom.linkHref ]_vars

\* C11 witness: the server's note is shown next to the visible form and
\* the hidden panel
C11_Witness ==
    /\ dom.flowErrorText = "Tracks could not be added."
    /\ ~dom.flowErrorHidden
    /\ ~dom.formHidden /\ dom.boxHidden /\ dom.linkHidden
    /\ ~submitting /\ calls = <<>>

CreateFailedMessage == "Failed to create playlist."

\* what a step in which handleSubmit caught an error with this message
\* leaves: the message (or the fixed string) as flow error, the form, the
\* panel and the link as they were, the page where it was, the lock free
Caught(message) ==
    /\ dom'.flowErrorText = IF message # "" THEN message ELSE CreateFailedMessage
    /\ ~dom'.flowErrorHidden
    /\ dom'.formHidden = dom.formHidden
    /\ dom'.boxHidden = dom.boxHidden
    /\ dom'.linkHidden = dom.linkHidden
    /\ dom'.trackList = dom.trackList
    /\ location' = location
    /\ ~submitting'
    /\ calls' = <<>>

\* C12: whenever the generation call rejects -- on a non-success status, on
\* a transport failure, or in the loopback guard -- handleSubmit shows the
\* error's message (the fixed string when it is empty), leaves the form and
\* the panel as they were and runs to its end.
C12_RejectionCaught ==
    [][ /\ \A i \in DOMAIN calls : \A r \in GenerationResponses :
              (calls' = Remove(calls, i) /\ SubmitSettleWith(i, r) /\ ~HttpSuccess(r)) =>
                  Caught(IF r.failed THEN r.error ELSE StatedMessage(r))
        /\ (\E i \in DOMAIN calls : calls[i].phase = "settled" /\ calls' = Remove(calls, i)) =>
              Caught(LoopbackMessage) ]_vars

\* C12 witness: the guard's message is shown, the form is visible, the lock
\* is free
C12_Witness ==
    /\ dom.flowErrorText = LoopbackMessage
    /\ ~dom.flowErrorHidden /\ ~dom.formHidden /\ dom.boxHidden
    /\ ~submitting /\ calls = <<>>

\* the categories in the order of C13
ModeOrder == <<"sleep", "focus", "gym", "calm", "rage_release">>

KeywordsOf(tag) ==
    CASE tag = "sleep" -> SleepWords
      [] tag = "focus" -> FocusWords
      [] tag = "gym" -> GymWords
      [] tag = "calm" -> CalmWords
      [] tag = "rage_release" -> RageWords

\* a is the lower-case letter b, in either case
SameLetter(a, b) ==
    a = b \/ \E k \in DOMAIN UpperCase : UpperCase[k] = a /\ LowerCase[k] = b

\* the keyword occurs in the text, letter case apart
KeywordIn(word, text) ==
    \E at \in 0..(Len(text) - Len(word)) :
        \A j \in 1..Len(word) : SameLetter(text[at + j], word[j])

\* the places in ModeOrder of the categories with a keyword in the text
CategoriesIn(text) ==
    { k \in DOMAIN ModeOrder : \E w \in KeywordsOf(ModeOrder[k]) : KeywordIn(w, text) }

\* the tag C13 names for the text
StatedMode(text) ==
    IF CategoriesIn(text) = {} THEN "uplift"
    ELSE ModeOrder[CHOOSE k \in CategoriesIn(text) : \A m \in CategoriesIn(text) : k <= m]

\* the text handleSubmit gave to detectMode for the body
ClassifiedText(data) == data.text \o <<" ">> \o data.goal

\* C13: the mode of every request body is the tag of the first category,
\* in the order sleep, focus, gym, calm, rage_release, with a keyword in
\* the text whatever its letter case, and uplift when there is none.
C13_FirstCategoryWins ==
    \A i \in DOMAIN calls :
        LET data == calls[i].init.body.data
        IN  data.mode = StatedMode(ClassifiedText(data))

\* C13 witness: the body of "STUDY" / "Tired" is tagged sleep although the
\* focus keyword comes first in the text and is in upper case
C13_Witness ==
    \E i \in DOMAIN calls :
        LET data == calls[i].init.body.data
        IN  /\ data.text = <<"S", "T", "U", "D", "Y">>
            /\ data.goal = <<"T", "i", "r", "e", "d">>
            /\ CategoriesIn(ClassifiedText(data)) = {1, 2}
            /\ data.mode = "sleep"

\* str has no whitespace at either end
Trimmed(str) ==
    str = <<>> \/ (str[1] \notin Whitespace /\ str[Len(str)] \notin Whitespace)

\* str is value without the whitespace at its ends
TrimOf(str, value) ==
    /\ Trimmed(str)
    /\ \E from \in 1..(Len(value) + 1) :
          /\ Blank(SubSeq(value, 1, from - 1))
          /\ SubSeq(value, from, from + Len(str) - 1) = str
          /\ Blank(SubSeq(value, from + Len(str), Len(value)))

\* the body of call c as C14 has it, built from the field values mood and
\* goal
BodyAsStated(c, mood, goal) ==
    LET data == c.init.body.data
    IN  /\ c.path = GeneratePath
        /\ c.init.method = "POST"
        /\ c.init.body.kind = "string"
        /\ data.public = FALSE
        /\ data.stages = 5
        /\ data.text # <<>> /\ TrimOf(data.text, mood)
        /\ data.goal # <<>> /\ TrimOf(data.goal, goal)
        /\ data.mode = StatedMode(ClassifiedText(data))

\* C14: every generation request body has public = false, stages = 5, a
\* non-empty trimmed text and goal, and the mode of exactly that text and
\* goal, all from the fields as they are at the submit event; no later step
\* (an edit of the fields included) changes the body, and the request that
\* is sent carries it.
C14_BodyFromSubmit ==
    [][ /\ \A i \in DOMAIN calls' \ DOMAIN calls :
              BodyAsStated(calls'[i], inputs.mood, inputs.goal)
        /\ \A i \in DOMAIN calls' \cap DOMAIN calls :
              /\ calls'[i].init = calls[i].init
              /\ calls'[i].request.issued => calls'[i].request.body = calls[i].init.body ]_vars

\* C14 witness: the request is in flight with the text read at the submit
\* event although the current-mood field has been blanked since
C14_Witness ==
    \E i \in DOMAIN calls :
        /\ calls[i].phase = "sent"
        /\ calls[i].request.body.data.text = <<"T", "i", "r", "e", "d">>
        /\ calls[i].request.body.data.goal = <<"c", "a", "l", "m">>
        /\ calls[i].request.body.data.mode = "sleep"
        /\ Blank(inputs.mood)

LoopbackHosts == {"localhost", "127.0.0.1", "[::1]"}

\* the API base URL parses and its host is a loopback host, and the page's
\* host is not
LoopbackFromHostedPage ==
    /\ cfg.apiBase.valid /\ cfg.apiBase.hostname \in LoopbackHosts
    /\ cfg.pageHost \notin LoopbackHosts

\* C15: an apiFetch call is rejected by the guard, with no token read, no
\* header built and no request made, exactly when the API base URL's host
\* is loopback and the page's host is not; every other call proceeds to
\* the token lookup and the request.
C15_LoopbackGuard ==
    \A i \in DOMAIN calls :
        IF LoopbackFromHostedPage
        THEN /\ calls[i].phase = "settled"
             /\ calls[i].result = Rejected(LoopbackMessage)
             /\ ~calls[i].request.issued
             /\ calls[i].headers = NoHeaders
        ELSE /\ calls[i].phase \in {"token", "sent", "settled"}
             /\ calls[i].phase # "token" => calls[i].request.issued
             /\ calls[i].phase = "token" => calls[i].result = Pending

\* C15 witness: a call from a hosted page to an API base on [::1] was
\* rejected by the guard
C15_Witness ==
    \E i \in DOMAIN calls :
        /\ cfg.pageHost = "moodmix.app"
        /\ cfg.apiBase.hostname = "[::1]"
        /\ calls[i].result = Rejected(LoopbackMessage)
        /\ ~calls[i].request.issued

\* C16: whenever the backend logout call settles -- with a success status,
\* an error status or a transport failure -- logout() resolves, and the
\* step in which handleLogout resumes sends the page to the login page
\* without having caught an error.
C16_LogoutRedirects ==
    [][ \A r \in LogoutResponses :
          LogoutSettleWith(r) =>
            /\ logout(r).kind = "resolve"
            /\ location' = LoginPage
            /\ dom' = dom
            /\ lo' = "done" ]_vars

\* C16 witness: the logout button was clicked, the call has settled, and
\* the page is on its way to the login page
C16_Witness ==
    /\ lo = "done"
    /\ fetched.logout = 1
    /\ dom.logoutDisabled
    /\ location = LoginPage
    /\ authState.authenticated

\* the names under which init.headers holds the header called name
CallerHeader(init, name) ==
    { k \in DOMAIN init.headers : HeaderName(k) = name }

\* the request was sent with header name set to value
SentWith(request, name, value) ==
    name \in DOMAIN request.headers /\ request.headers[name] = value

\* C17: every request apiFetch sends has credentials "include" whatever the
\* caller's credentials mode; it has the caller's Accept header, or
\* application/json when the caller set none; it has the caller's
\* Content-Type, or application/json when the caller set none and the
\* body is neither absent, null nor FormData, and no Content-Type otherwise.
C17_RequestDefaults ==
    \A i \in DOMAIN calls :
        calls[i].request.issued =>
            LET init == calls[i].init
                request == calls[i].request
                accept == CallerHeader(init, "accept")
                contentType == CallerHeader(init, "content-type")
            IN  /\ request.credentials = "include"
                /\ request.method = init.method
                /\ request.body = init.body
                /\ IF accept # {}
                   THEN \E k \in accept : SentWith(request, "accept", init.headers[k])
                   ELSE SentWith(request, "accept", "application/json")
                /\ IF contentType # {}
                   THEN \E k \in contentType : SentWith(request, "content-type", init.headers[k])
                   ELSE IF init.body.kind \in {"undefined", "null", "formdata"}
                   THEN "content-type" \notin DOMAIN request.headers
                   ELSE SentWith(request, "content-type", "application/json")

\* C17 witness: a caller that asked for credentials "omit" and set no
\* header got a JSON request with credentials included
C17_Witness ==
    \E i \in DOMAIN calls :
        /\ calls[i].request.issued
        /\ calls[i].init.credentials = "omit"
        /\ calls[i].init.headers = NoHeaders
        /\ calls[i].init.body.kind = "string"
        /\ calls[i].request.credentials = "include"
        /\ SentWith(calls[i].request, "accept", "application/json")
        /\ SentWith(calls[i].request, "content-type", "application/json")

\* the first of the three values that is there and not empty; the meta
\* tag's value is its content as readMetaContent reads it
FirstNonEmpty(page) ==
    IF page.runtimeConfig.apiBaseUrl.present /\ page.runtimeConfig.apiBaseUrl.chars # <<>>
    THEN page.runtimeConfig.apiBaseUrl.chars
    ELSE IF readMetaContent(page.metaApiBase) # <<>>
    THEN readMetaContent(page.metaApiBase)
    ELSE page.origin

\* str is value without its trailing slashes
WithoutTrailingSlashes(str, value) ==
    /\ str = <<>> \/ str[Len(str)] # "/"
    /\ Len(str) <= Len(value)
    /\ SubSeq(value, 1, Len(str)) = str
    /\ \A k \in (Len(str) + 1)..Len(value) : value[k] = "/"

\* C18, the API base URL: once config.js is evaluated the API base URL is
\* the first non-empty value among the runtime config's apiBaseUrl, the
\* api-base-url meta tag and the page origin, without its trailing slashes.
C18_ApiBaseResolved ==
    cfg.loaded => WithoutTrailingSlashes(cfg.apiBaseUrl, FirstNonEmpty(cfg))

\* str is value without its leading slashes
WithoutLeadingSlashes(str, value) ==
    /\ str = <<>> \/ str[1] # "/"
    /\ Len(str) <= Len(value)
    /\ SubSeq(value, Len(value) - Len(str) + 1, Len(value)) = str
    /\ \A k \in 1..(Len(value) - Len(str)) : value[k] = "/"

\* url is directory, one slash, and the page name; no further slash
\* stands between the two
OneSlashBetween(url, directory, page) ==
    \E name \in {SubSeq(page, k, Len(page)) : k \in 1..(Len(page) + 1)} :
        /\ WithoutLeadingSlashes(name, page)
        /\ url = directory \o <<"/">> \o name
        /\ directory = <<>> \/ directory[Len(directory)] # "/"

\* C18 as stated: the API base URL is resolved as above, and every
\* frontendUrl(page) is the base path, exactly one slash, and the page
\* name.
C18_AsStated ==
    [][ /\ C18_ApiBaseResolved'
        /\ \A page \in PageNames :
              NavigateTo(page) =>
                  \E directory \in {SubSeq(location', 1, k) : k \in 0..Len(location')} :
                      /\ WithoutTrailingSlashes(directory, cfg.frontendBasePath)
                      /\ OneSlashBetween(location', directory, page) ]_vars

\* C19 as stated: from the click on the logout control on,
\* authState.authenticated is false, and a submit event starts no
\* generation request.
C19_AsStated ==
    lo # "idle" =>
        /\ ~authState.authenticated
        /\ ~handleSubmit(cfg, Page, inputs).started

\* the state C19 excludes: the logout call is outstanding, the Session is
\* still authenticated, and a generation request made after the click is
\* in flight
C19_SubmitDuringLogout ==
    /\ lo = "sent"
    /\ authState.authenticated
    /\ \E i \in DOMAIN calls : calls[i].phase = "sent"

\* the calls of a caller of apiFetch whose promise rejected
RejectedCalls ==
    { i \in DOMAIN calls : calls[i].owner = "caller" /\ calls[i].result.kind = "reject" }

\* the call was rejected on an HTTP response
HttpFailure(call) == call.request.issued /\ ~call.response.failed

ClientRequest(c, path, bs) ==
    apiFetchSend(c, apiFetchBegin(c, "caller", path, RequestInit("GET", NoHeaders, NoBody, "")), bs).request

\* C21 as stated: the auth probe to /auth/me goes through the request
\* client's call operation: it is sent only when the loopback guard lets
\* the call pass, and it is the request the client sends for the path,
\* with the Accept header and the bearer token of a broker session.
C21_AsStated ==
    fetched.request.issued =>
        /\ ~ensureApiReachableFromFrontend(cfg)
        /\ SentWith(fetched.request, "accept", "application/json")
        /\ \E bs \in (IF cfg.supabase THEN BrokerSessions ELSE {BrokerSession("null", Undef)}) :
              fetched.request = ClientRequest(cfg, AuthMePath, bs)

\* the state C21 excludes: the probe has left a hosted page for a loopback
\* API base, with no header at all
C21_ProbePastGuard ==
    /\ boot = "probing"
    /\ fetched.request.issued
    /\ ensureApiReachableFromFrontend(cfg)
    /\ fetched.request.headers = NoHeaders

\* the outcomes of supabase.auth.getSession() that make getSupabaseSession
\* throw
FailedLookups == {bs \in BrokerSessions : bs.kind \in {"rejects", "error"}}

\* the configuration c with no identity broker
WithoutBroker(c) == [c EXCEPT !.supabase = FALSE]

\* C22: when reading the broker session fails inside apiFetch, the request
\* is still sent, and it is the request sent when no broker is configured:
\* no Authorization header is added to the caller's headers; what the call
\* then settles with is what apiFetch settles with for the response alone.
C22_LookupErrorSwallowed ==
    [][ /\ \A i \in DOMAIN calls : \A bs \in FailedLookups :
              (cfg.supabase /\ ApiFetchTokenWith(i, bs)) =>
                  LET plain == apiFetchSend(WithoutBroker(cfg), calls[i], BrokerSession("null", Undef))
                  IN  /\ calls'[i].phase = "sent"
                      /\ calls'[i].request.issued
                      /\ calls'[i].request = plain.request
                      /\ calls'[i].headers = plain.headers
                      /\ calls'[i].result = Pending
                      /\ CallerAuthorization(calls[i].init) = {} =>
                            "authorization" \notin DOMAIN calls'[i].request.headers
        /\ \A i \in DOMAIN calls : \A r \in AnyResponses :
              (calls[i].caught /\ FetchSettleWith(i, r)) =>
                  /\ calls'[i].request = calls[i].request
                  /\ calls'[i].result =
                        apiFetchSettle(r) ]_vars

\* C22 witness: with a broker configured, the session lookup failed, the
\* request went out with no Authorization header, and the call resolved
\* with the payload of a success response
C22_Witness ==
    \E i \in DOMAIN calls :
        /\ cfg.supabase
        /\ calls[i].caught
        /\ calls[i].request.issued
        /\ "authorization" \notin DOMAIN calls[i].request.headers
        /\ calls[i].phase = "settled"
        /\ calls[i].result.kind = "resolve"
        /\ calls[i].result.payload # NullPayload

\* the calls of a caller that have settled on a success-status response
SucceededCalls ==
    { i \in DOMAIN calls :
        /\ calls[i].owner = "caller"
        /\ calls[i].phase = "settled"
        /\ HttpFailure(calls[i])
        /\ calls[i].response.status \in 200..299 }

\* the body of r decodes as JSON
Decodes(r) == r.body.readable /\ r.body.parses

FieldsFilled == ValidationMessage(Trim(inputs.mood), Trim(inputs.goal)) = ""

\* a submission has ended on this step: its apiFetch activation has left
\* the list of calls
SubmissionEnds == \E i \in DOMAIN calls : calls' = Remove(calls, i)

\* C24: when a submission ends, whatever its outcome (playlist rendered,
\* note shown in place of a playlist, or error shown), submitting is false
\* and the submit control is enabled and carries its idle label, and a
\* submit event on the form with both fields filled in starts a new
\* submission.
C24_ReturnsToIdle ==
    [][ SubmissionEnds =>
          /\ ~submitting'
          /\ ~dom'.createDisabled
          /\ dom'.createText = "Create playlist"
          /\ calls' = <<>>
          /\ FieldsFilled =>
                LET again == handleSubmit(cfg, PageState(submitting', authState', dom', location'), inputs)
                IN  /\ again.started
                    /\ again.page.submitting
                    /\ again.call.path = GeneratePath ]_vars

\* C24 witness: a playlist was rendered by an earlier submission (its link
\* is shown and the form carries the hidden class), and a later submission
\* is in flight
C24_Witness ==
    /\ ~dom.linkHidden
    /\ dom.formHidden
    /\ submitting
    /\ dom.createDisabled
    /\ \E i \in DOMAIN calls : calls[i].owner = "handleSubmit" /\ calls[i].phase = "sent"

\* C25: authState changes only on the step on which ensureAuthenticated
\* runs to its end; handleSubmit, its resumption with renderPlaylist,
\* handleLogout and its resumption, and the steps of apiFetch leave it as
\* it is; once authState.authenticated is true, authState never changes
\* again.
C25_SessionFrame ==
    [][ /\ authState' # authState =>
              /\ boot = "probing" /\ boot' = "done"
              /\ \E r \in ResponsesFor(AuthMePath) :
                    authState' = ensureAuthenticated(cfg, Page, checkAuth(r)).page.authState
        /\ authState.authenticated => authState' = authState
        /\ handleSubmit(cfg, Page, inputs).page.authState = authState
        /\ handleLogout(Page).authState = authState
        /\ \A r \in ResponsesFor(LogoutPath) :
              handleLogoutResume(cfg, Page, logout(r)).authState = authState
        /\ \A i \in DOMAIN calls :
              (calls' = Remove(calls, i) \/ calls'[i] # calls[i]) => authState' = authState ]_vars

\* C25 witness: the Session set at bootstrap is still there after a
\* playlist was rendered and the logout sequence has run to its end
C25_Witness ==
    /\ authState.authenticated
    /\ authState.userId = Str("spotify-user-1")
    /\ authState.displayName = Str("Ann")
    /\ ~dom.linkHidden
    /\ lo = "done"
    /\ location = frontendUrl(cfg, "login.html")

\* C26: on the login page a click issues the logout call and leaves the
\* location alone; the location changes only on the step on which that
\* call settles, to the backend /auth/login URL, and it does so for a
\* success status, an error status and a transport failure alike; the
\* button is disabled from the click until the sequence is over, and no
\* logout call is issued while one is outstanding or after the navigation.
C26_LogoutThenLogin ==
    [][ /\ fetched'.logout # fetched.logout =>
              /\ lo = "idle" /\ lo' = "sent"
              /\ ~dom.loginDisabled /\ dom'.loginDisabled
              /\ fetched'.logout = fetched.logout + 1
              /\ location' = location
        /\ location' # location =>
              /\ lo = "sent" /\ lo' = "done"
              /\ location' = cfg.apiBase.url \o "/auth/login"
              /\ dom'.loginDisabled
        /\ lo = "sent" =>
              /\ dom.loginDisabled
              /\ \A r \in LogoutResponses :
                    loginClickResume(cfg, Page, logout(r), FALSE, "").location =
                        cfg.apiBase.url \o "/auth/login"
        /\ lo = "done" => lo' = "done" /\ dom'.loginDisabled ]_vars

\* C26 witness: one click, one logout call, and the page is on its way to
\* the backend login URL with the button still disabled
C26_Witness ==
    /\ lo = "done"
    /\ fetched.logout = 1
    /\ dom.loginDisabled
    /\ cfg.apiBase.url = "https://api.moodmix.app"
    /\ location = "https://api.moodmix.app/auth/login"

\* the requests of handleSubmit among the calls cs
SubmissionCalls(cs) == { i \in DOMAIN cs : cs[i].owner = "handleSubmit" }

\* the request that got r has succeeded: a success status and a body that
\* was read and, when typed JSON, decoded
Succeeds(r) ==
    /\ HttpSuccess(r)
    /\ r.body.readable
    /\ JsonTyped(r) => r.body.parses

\* what the page shows once handleSubmit of script.js has caught the
\* failure of the request that got r
FailureShown(r) ==
    /\ SubmissionCalls(calls') = {}
    /\ ~dom'.flowErrorHidden
    /\ dom'.flowErrorText # ""
    /\ r.failed => dom'.flowErrorText = (IF r.error # "" THEN r.error ELSE CreateFailedMessage)
    /\ (~r.failed /\ ~HttpSuccess(r) /\ JsonTyped(r) /\ ErrorField(r, "detail") # "") =>
          dom'.flowErrorText = ErrorField(r, "detail")
    /\ ~submitting'
    /\ ~dom'.createDisabled

\* C27: in script.js a /spotify/create-playlist request appears only on
\* the step on which the /emotions request of the submission settles, and
\* only when that request succeeded; when either request fails, the
\* submission has no request left, the flow error shows the failure's
\* message (the fixed string when it is empty) and submitting is false; a
\* submit event while submitting is true, with a mood text that is empty
\* once trimmed, or while unauthenticated adds no request.
C27_ScriptSubmitOrder ==
    [][ /\ \A j \in SubmissionCalls(calls') :
              (calls'[j].path = CreatePlaylistPath /\ calls'[j] \notin {calls[k] : k \in DOMAIN calls}) =>
                  \E i \in SubmissionCalls(calls) : \E r \in EmotionsResponses :
                      /\ calls[i].path = EmotionsPath
                      /\ Succeeds(r)
                      /\ ScriptEmotionsSettleWith(i, r)
        /\ \A i \in SubmissionCalls(calls) :
              /\ \A r \in EmotionsResponses :
                    (~Succeeds(r) /\ ScriptEmotionsSettleWith(i, r)) => FailureShown(r)
              /\ \A r \in CreateResponses :
                    (~Succeeds(r) /\ ScriptCreateSettleWith(i, r)) => FailureShown(r)
        /\ Cardinality(SubmissionCalls(calls)) <= 1
        /\ (submitting \/ Trim(inputs.mood) = <<>> \/ ~authState.authenticated) =>
              /\ ~scriptHandleSubmit(cfg, Page, inputs).started
              /\ Cardinality(SubmissionCalls(calls')) <= Cardinality(SubmissionCalls(calls)) ]_vars

\* C27 witness: the /emotions request of a submission has succeeded and
\* its /spotify/create-playlist request is in flight, the only request of
\* the submission, with the page still submitting
C27_Witness ==
    /\ submitting
    /\ lo.playlistName = "MoodMix: Joy"
    /\ \E i \in DOMAIN calls :
          /\ calls[i].owner = "handleSubmit"
          /\ calls[i].path = CreatePlaylistPath
          /\ calls[i].request.issued
          /\ calls[i].request.body.data.playlistName = "MoodMix: Joy"
    /\ Cardinality(SubmissionCalls(calls)) = 1

\* the calls of lib/api.ts apiFetch that have settled on an HTTP response
LibSettledCalls ==
    { i \in DOMAIN calls :
        calls[i].owner = "lib" /\ calls[i].phase = "settled" /\ ~calls[i].response.failed }

\* the field key of the decoded JSON object of r, undefined when the body
\* is no JSON object or has no such field
JsonField(r, key) ==
    IF r.body.readable /\ r.body.parses /\ r.body.value.t = "object" /\ key \in DOMAIN r.body.value.o
    THEN r.body.value.o[key]
    ELSE Undef

\* the message C28 names for the non-success response r: the JSON detail,
\* else the JSON message, else the non-empty text of a non-JSON body, else
\* the generic message
LibStatedMessage(r) ==
    IF JsonTyped(r)
    THEN IF JsonField(r, "detail").t \notin {"undefined", "null"} THEN TextOf(JsonField(r, "detail"))
         ELSE IF JsonField(r, "message").t \notin {"undefined", "null"} THEN TextOf(JsonField(r, "message"))
         ELSE "Request failed with status " \o ToString(r.status) \o "."
    ELSE IF r.body.readable /\ r.body.text # "" THEN r.body.text
         ELSE "Request failed with status " \o ToString(r.status) \o "."

\* a non-success response rejected with an ApiError that has the status of
\* the response and the message C28 names
RejectedAsStated(call) ==
    /\ call.result.kind = "reject"
    /\ call.result.name = "ApiError"
    /\ call.result.status = Num(call.response.status)
    /\ call.result.message = LibStatedMessage(call.response)

\* C28 as stated: every non-success response rejects with an ApiError of
\* that status and message; every success response resolves, to undefined
\* when the status is 204 or the content type is not JSON and to the
\* decoded JSON otherwise.
C28_AsStated ==
    \A i \in LibSettledCalls :
        LET r == calls[i].response
        IN  IF ~HttpSuccess(r) THEN RejectedAsStated(calls[i])
            ELSE /\ calls[i].result.kind = "resolve"
                 /\ calls[i].result.payload =
                       IF r.status = 204 \/ ~JsonTyped(r) THEN Scalar(Undef) ELSE r.body.value

\* C28 as amended: as stated, except that a success response other than
\* 204 with a JSON content type resolves to the decoded JSON only when its
\* body decodes; when it does not, apiFetch rejects with the error of
\* response.json(), which is no ApiError and has no status.
C28_ApiErrorShape ==
    \A i \in LibSettledCalls :
        LET r == calls[i].response
        IN  IF ~HttpSuccess(r) THEN RejectedAsStated(calls[i])
            ELSE IF r.status = 204 \/ ~JsonTyped(r) THEN calls[i].result = Resolved(Scalar(Undef))
            ELSE IF Decodes(r) THEN calls[i].result = Resolved(r.body.value)
            ELSE /\ calls[i].result.kind = "reject"
                 /\ calls[i].result.name \in {"SyntaxError", "TypeError"}
                 /\ calls[i].result.status = Undef

\* C28 witness: a 404 with both JSON fields was rejected with an ApiError
\* that has the status and the detail
C28_Witness ==
    \E i \in LibSettledCalls :
        /\ calls[i].response.status = 404
        /\ calls[i].response.body = DetailAndMessage
        /\ calls[i].result.name = "ApiError"
        /\ calls[i].result.status = Num(404)
        /\ calls[i].result.message = "Mood text is required"

\* the state C28 excludes: a 200 response typed JSON whose body does not
\* decode has made apiFetch reject
C28_UndecodableSuccessRejects ==
    \E i \in LibSettledCalls :
        /\ calls[i].response.status = 200
        /\ JsonTyped(calls[i].response)
        /\ ~Decodes(calls[i].response)
        /\ calls[i].result.kind = "reject"
        /\ calls[i].result.name = "SyntaxError"

====
